---- MODULE Spec2Model ----
(***************************************************************************)
(* A model of the content synchronisation pipeline of the Lito CLI        *)
(* (src/core/sync.js, src/core/landing-sync.js, src/core/scaffold.js).    *)
(* Strings are sequences of one-character strings, so that startsWith,    *)
(* includes, indexOf, split and trim are computed as JavaScript computes  *)
(* them.  Paths are sequences of names; a tree maps each path to a node.  *)
(***************************************************************************)
EXTENDS Integers, Sequences, FiniteSets, TLC

(***************************************************************************)
(* JavaScript string primitives (positions are 0-based as in the source). *)
(***************************************************************************)
MinOf(S) == CHOOSE x \in S : \A y \in S : x <= y

StartsWith(s, p) == Len(p) <= Len(s) /\ SubSeq(s, 1, Len(p)) = p

EndsWith(s, p) == Len(p) <= Len(s) /\ SubSeq(s, Len(s) - Len(p) + 1, Len(s)) = p

\* String.prototype.indexOf(p, from): the first 0-based position >= from, or -1
IndexOf(s, p, from) ==
    LET hits == { i \in from .. (Len(s) - Len(p)) : SubSeq(s, i + 1, i + Len(p)) = p }
    IN  IF hits = {} THEN -1 ELSE MinOf(hits)

Includes(s, p) == IndexOf(s, p, 0) # -1

\* String.prototype.substring(a, b) and substring(a)
Substring(s, a, b) == SubSeq(s, a + 1, b)

SubstringFrom(s, a) == SubSeq(s, a + 1, Len(s))

WhiteSpace == {" ", "\n", "\t", "\r"}

\* String.prototype.trim
Trim(s) ==
    LET keep == { i \in 1 .. Len(s) : s[i] \notin WhiteSpace }
    IN  IF keep = {} THEN <<>>
        ELSE SubSeq(s, MinOf(keep), CHOOSE j \in keep : \A k \in keep : k <= j)

\* String.prototype.repeat
RECURSIVE Repeat(_, _)
Repeat(s, n) == IF n <= 0 THEN <<>> ELSE s \o Repeat(s, n - 1)

\* String.prototype.split(c) for a one-character separator c
RECURSIVE Split(_, _)
Split(s, c) ==
    LET i == IndexOf(s, <<c>>, 0)
    IN  IF i = -1 THEN <<s>>
        ELSE <<Substring(s, 0, i)>> \o Split(SubstringFrom(s, i + 1), c)

\* Array.prototype.join(sep)
RECURSIVE Join(_, _)
Join(parts, sp) ==
    IF parts = <<>> THEN <<>>
    ELSE IF Len(parts) = 1 THEN parts[1]
    ELSE parts[1] \o sp \o Join(Tail(parts), sp)

Range(f) == { f[i] : i \in DOMAIN f }

Uppercase ==
    <<"A", "B", "C", "D", "E", "F", "G", "H", "I", "J", "K", "L", "M", "N", "O", "P", "Q", "R", "S", "T", "U", "V", "W", "X", "Y", "Z">>

Lowercase ==
    <<"a", "b", "c", "d", "e", "f", "g", "h", "i", "j", "k", "l", "m", "n", "o", "p", "q", "r", "s", "t", "u", "v", "w", "x", "y", "z">>

UpperToLower == [c \in Range(Uppercase) |-> Lowercase[CHOOSE i \in 1 .. 26 : Uppercase[i] = c]]

\* String.prototype.toLowerCase, over the ASCII letters
ToLowerCase(s) ==
    [i \in 1 .. Len(s) |-> IF s[i] \in DOMAIN UpperToLower THEN UpperToLower[s[i]] ELSE s[i]]

\* String.prototype.replace(/-/g, ' ')
ReplaceHyphens(s) == [i \in 1 .. Len(s) |-> IF s[i] = "-" THEN " " ELSE s[i]]

sep == "/"

ExtMd == <<".", "m", "d">>

ExtMdx == <<".", "m", "d", "x">>

\* String.prototype.replace(/\.(md|mdx)$/, '')
StripMdExt(s) ==
    IF EndsWith(s, ExtMd) THEN SubSeq(s, 1, Len(s) - 3)
    ELSE IF EndsWith(s, ExtMdx) THEN SubSeq(s, 1, Len(s) - 4)
    ELSE s

\* path.join(base, segments...) and path.relative(from, to) for to at or below from
JoinPath(base, segs) == IF segs = <<>> THEN base ELSE base \o <<sep>> \o Join(segs, <<sep>>)

Relative(from, to) == IF to = from THEN <<>> ELSE SubstringFrom(to, Len(from) + 1)


(***************************************************************************)
(* Program constants of sync.js.                                          *)
(***************************************************************************)
KNOWN_LOCALES ==
        { <<"e","n">>, <<"e","s">>, <<"f","r">>, <<"d","e">>, <<"i","t">>, <<"p","t">>,
          <<"r","u">>, <<"z","h">>, <<"j","a">>, <<"k","o">>, <<"a","r">>, <<"h","i">>,
          <<"b","n">>, <<"p","a">>, <<"i","d">>, <<"m","s">>, <<"t","h">>, <<"v","i">>,
          <<"t","r">>, <<"p","l">>, <<"n","l">>, <<"s","v">>, <<"d","a">>, <<"n","o">>,
          <<"f","i">>, <<"c","s">>, <<"s","k">>, <<"h","u">>, <<"r","o">>, <<"b","g">>,
          <<"u","k">>, <<"h","e">>, <<"f","a">>, <<"u","r">>, <<"t","a">>, <<"t","e">>,
          <<"m","r">>, <<"g","u">>, <<"k","n">>, <<"m","l">> }

SPECIAL_FOLDERS ==
    { <<"_", "a", "s", "s", "e", "t", "s">>, <<"_", "c", "s", "s">>, <<"_", "i", "m", "a", "g", "e", "s">>, <<"_", "s", "t", "a", "t", "i", "c">>,
      <<"_", "l", "a", "n", "d", "i", "n", "g">>, <<"_", "n", "a", "v", "b", "a", "r">>, <<"_", "f", "o", "o", "t", "e", "r">>, <<"p", "u", "b", "l", "i", "c">> }

DocsConfigJson == <<"d", "o", "c", "s", "-", "c", "o", "n", "f", "i", "g", ".", "j", "s", "o", "n">>

VercelJson == <<"v", "e", "r", "c", "e", "l", ".", "j", "s", "o", "n">>

DefaultLayoutPath == <<"l", "a", "y", "o", "u", "t", "s", "/", "M", "a", "r", "k", "d", "o", "w", "n", "L", "a", "y", "o", "u", "t", ".", "a", "s", "t", "r", "o">>

DefaultApiLayoutPath == <<"l", "a", "y", "o", "u", "t", "s", "/", "A", "P", "I", "L", "a", "y", "o", "u", "t", ".", "a", "s", "t", "r", "o">>

\* null, undefined and the empty string are all falsy: one value stands for them
Null == <<>>

Truthy(v) == v # Null

KwLayout == <<"l", "a", "y", "o", "u", "t", ":">>

KwLang == <<"l", "a", "n", "g", ":">>

KwDocVersion == <<"d", "o", "c", "V", "e", "r", "s", "i", "o", "n", ":">>

KwApi == <<"a", "p", "i", ":">>

KwTitle == <<"t", "i", "t", "l", "e", ":">>

Fence == <<"-", "-", "-">>

NL == <<"\n">>

(***************************************************************************)
(* Names and page contents the source trees of the model are built from.  *)
(***************************************************************************)
IndexMd == <<"i", "n", "d", "e", "x", ".", "m", "d">>
IndexMdx == <<"i", "n", "d", "e", "x", ".", "m", "d", "x">>
IndexAstro == <<"i", "n", "d", "e", "x", ".", "a", "s", "t", "r", "o">>
Guide == <<"g", "u", "i", "d", "e">>
IntroMd == <<"i", "n", "t", "r", "o", ".", "m", "d">>
RefMdx == <<"r", "e", "f", ".", "m", "d", "x">>
AboutMd == <<"a", "b", "o", "u", "t", ".", "m", "d">>
BadMd == <<"b", "a", "d", ".", "m", "d">>
PageMd == <<"p", "a", "g", "e", ".", "m", "d">>
OldMd == <<"o", "l", "d", ".", "m", "d">>
MyPageMd == <<"m", "y", "-", "p", "a", "g", "e", ".", "m", "d">>
WelcomeMd == <<"w", "e", "l", "c", "o", "m", "e", ".", "m", "d">>
PublicApiMd == <<"p", "u", "b", "l", "i", "c", "-", "a", "p", "i", ".", "m", "d">>
IndexHtml == <<"i", "n", "d", "e", "x", ".", "h", "t", "m", "l">>
CustomCss == <<"c", "u", "s", "t", "o", "m", ".", "c", "s", "s">>
GlobalCss == <<"g", "l", "o", "b", "a", "l", ".", "c", "s", "s">>
Fr == <<"f", "r">>
Es == <<"e", "s">>
De == <<"d", "e">>
PtBR == <<"p", "t", "-", "B", "R">>
V1 == <<"v", "1">>
V10 == <<"v", "1", ".", "0">>
LandingDir == <<"_", "l", "a", "n", "d", "i", "n", "g">>
CssDir == <<"_", "c", "s", "s">>

\* page contents: no frontmatter; a title; an explicit layout; an api page;
\* an unclosed frontmatter block; a page already tagged with lang and docVersion
PlainPage == <<"H", "i">>
TitlePage == Fence \o NL \o KwTitle \o <<" ", "T">> \o NL \o Fence \o NL \o <<"B">>
LayoutPage == Fence \o NL \o KwLayout \o <<" ", "c", ".", "a", "s", "t", "r", "o">> \o NL \o Fence \o NL \o <<"B">>
ApiPage == Fence \o NL \o KwApi \o <<" ", "x">> \o NL \o Fence \o NL \o <<"B">>
UnclosedPage == Fence \o NL \o KwTitle \o <<" ", "T">> \o NL
TaggedPage ==
    Fence \o NL \o KwLang \o <<" ", "d", "e">> \o NL \o KwDocVersion \o <<" ", "v", "0">> \o NL \o KwLayout \o <<" ", "c", ".", "a", "s", "t", "r", "o">>
      \o NL \o Fence \o NL

(***************************************************************************)
(* File trees.  A tree maps a path (a sequence of names, relative to the  *)
(* tree's root directory) to a node; the root directory is the path <<>>. *)
(***************************************************************************)
DirNode == [kind |-> "dir", content |-> <<>>]

FileNode(c) == [kind |-> "file", content |-> c]

EmptyTree == [p \in {<<>>} |-> DirNode]

IsPrefix(d, p) == Len(d) <= Len(p) /\ SubSeq(p, 1, Len(d)) = d

\* the tree holding the files fs (a set of [path, content]) and their directories
MkTree(fs) ==
    LET files == { f.path : f \in fs }
        dirs  == UNION { { SubSeq(p, 1, k) : k \in 0 .. (Len(p) - 1) } : p \in files }
                   \cup {<<>>}
    IN  [p \in files \cup dirs |->
            IF p \in dirs THEN DirNode
            ELSE FileNode((CHOOSE f \in fs : f.path = p).content)]

IsDir(tree, p) == p \in DOMAIN tree /\ tree[p].kind = "dir"

IsFile(tree, p) == p \in DOMAIN tree /\ tree[p].kind = "file"

\* readdir(root, {withFileTypes: true}) on the root of a tree: the top-level paths
TopLevel(tree) == { p \in DOMAIN tree : Len(p) = 1 }

IsMarkdownName(name) == EndsWith(name, ExtMd) \/ EndsWith(name, ExtMdx)

(***************************************************************************)
(* fs-extra copy(src, dest, {overwrite: true, filter}).  The filter is    *)
(* asked for src itself and then for every entry below it; an entry it    *)
(* rejects is skipped with everything below it.  Admitted directories are *)
(* created when missing, admitted files overwrite.  passing is the set of *)
(* entries of the tree for which the filter returns true.                 *)
(***************************************************************************)
Admitted(tree, srcRoot, passing) ==
    { p \in DOMAIN tree :
        /\ IsPrefix(srcRoot, p)
        /\ \A k \in Len(srcRoot) .. Len(p) : SubSeq(p, 1, k) \in passing }

Rebase(p, srcRoot, dstRoot) == dstRoot \o SubSeq(p, Len(srcRoot) + 1, Len(p))

CopyTree(tree, srcRoot, dst, dstRoot, passing) ==
    LET adm    == Admitted(tree, srcRoot, passing)
        moved  == { Rebase(p, srcRoot, dstRoot) : p \in adm }
        from(q) == CHOOSE p \in adm : Rebase(p, srcRoot, dstRoot) = q
    IN  [q \in DOMAIN dst \cup moved |->
            IF q \notin moved THEN dst[q]
            ELSE IF tree[from(q)].kind = "dir" /\ q \in DOMAIN dst THEN dst[q]
            ELSE tree[from(q)]]

\* the files a copy writes, as paths of the source tree
CopiedFiles(tree, srcRoot, passing) ==
    { p \in Admitted(tree, srcRoot, passing) : tree[p].kind = "file" }

\* fs-extra ensureDir(dir): creates the directory and its missing parents
EnsureDir(dst, dir) ==
    LET need == { SubSeq(dir, 1, k) : k \in 0 .. Len(dir) } \ DOMAIN dst
    IN  [q \in DOMAIN dst \cup need |-> IF q \in need THEN DirNode ELSE dst[q]]

(***************************************************************************)
(* docs-config.json.  state is "absent", "malformed" (JSON.parse throws)  *)
(* or "ok"; a key that is not present has present = FALSE.                *)
(***************************************************************************)
NoI18n == [present |-> FALSE, hasLocales |-> FALSE, locales |-> <<>>]

NoVersioning == [present |-> FALSE, enabled |-> FALSE, hasVersions |-> FALSE, versions |-> <<>>]

\* landing.navbar / landing.footer: false (hidden), {html: path} or undefined
NoRegion == [hidden |-> FALSE, html |-> Null]

NoLanding ==
    [present |-> FALSE, enabled |-> "undefined", type |-> "undefined",
     sections |-> FALSE, hero |-> FALSE, features |-> FALSE,
     source |-> Null, navbar |-> NoRegion, footer |-> NoRegion, sectionList |-> <<>>]

En == <<"e", "n">>


\* getI18nConfig: config.i18n || { defaultLocale: 'en', locales: ['en'] }
getI18nConfig(cfg) ==
    IF cfg.state = "ok" /\ cfg.i18n.present THEN cfg.i18n
    ELSE [present |-> TRUE, hasLocales |-> TRUE, locales |-> <<En>>]

\* getVersioningConfig: config.versioning || { enabled: false }
getVersioningConfig(cfg) ==
    IF cfg.state = "ok" /\ cfg.versioning.present THEN cfg.versioning
    ELSE [present |-> TRUE, enabled |-> FALSE, hasVersions |-> FALSE, versions |-> <<>>]

\* getDocsConfig(...).landing; a file holding null has no landing to read (line 235 throws)
getLanding(cfg) == IF cfg.state = "ok" THEN cfg.landing ELSE NoLanding

\* i18nConfig.locales || ['en']  (an empty array is truthy)
ConfiguredLocales(i18nConfig) == IF i18nConfig.hasLocales THEN i18nConfig.locales ELSE <<En>>

detectLocaleFolders(tree, configuredLocales) ==
    { p[1] : p \in
        { q \in TopLevel(tree) :
            /\ tree[q].kind = "dir"
            /\ \/ ToLowerCase(q[1]) \in KNOWN_LOCALES
               \/ ToLowerCase(q[1]) \in Range(configuredLocales) } }

\* mutant: versioning.enabled is not looked at
detectVersionFolders_IgnoreEnabled(tree, versioningConfig) ==
    { p[1] : p \in
        { q \in TopLevel(tree) :
            tree[q].kind = "dir" /\ q[1] \in Range(versioningConfig.versions) } }

detectVersionFolders(tree, versioningConfig) ==
    IF ~versioningConfig.enabled \/ ~versioningConfig.hasVersions
         \/ Len(versioningConfig.versions) = 0
    THEN {}
    ELSE { p[1] : p \in
            { q \in TopLevel(tree) :
                tree[q].kind = "dir" /\ q[1] \in Range(versioningConfig.versions) } }

(***************************************************************************)
(* parseFrontmatter of scaffold.js: data maps each key to its value.      *)
(***************************************************************************)
StripQuotes(v) ==
    IF Len(v) >= 2 /\ ((v[1] = "\"" /\ v[Len(v)] = "\"") \/ (v[1] = "'" /\ v[Len(v)] = "'"))
    THEN SubSeq(v, 2, Len(v) - 1)
    ELSE v

FrontmatterData(fmBlock) ==
    LET lines  == Split(fmBlock, "\n")
        keyed  == { i \in 1 .. Len(lines) :
                      /\ IndexOf(lines[i], <<":">>, 0) # -1
                      /\ Trim(Substring(lines[i], 0, IndexOf(lines[i], <<":">>, 0))) # <<>> }
        key(i) == Trim(Substring(lines[i], 0, IndexOf(lines[i], <<":">>, 0)))
        val(i) == StripQuotes(Trim(SubstringFrom(lines[i], IndexOf(lines[i], <<":">>, 0) + 1)))
        last(k) == CHOOSE i \in keyed : key(i) = k /\ \A j \in keyed : key(j) = k => j <= i
    IN  [k \in { key(i) : i \in keyed } |-> val(last(k))]

parseFrontmatter(content) ==
    IF ~StartsWith(content, Fence) THEN [data |-> << >>, body |-> content]
    ELSE LET endIdx == IndexOf(content, Fence, 3)
         IN  IF endIdx = -1 THEN [data |-> << >>, body |-> content]
             ELSE [data |-> FrontmatterData(Trim(Substring(content, 3, endIdx))),
                   body |-> Trim(SubstringFrom(content, endIdx + 3))]

(***************************************************************************)
(* injectLayoutIntoMarkdown.  InjectContent is the rewrite of one page:   *)
(* name is entry.name, relSegs the page's path below rootDir, locale and  *)
(* version the pass's tags (Null for none).                               *)
(***************************************************************************)
UpDir == <<".", ".", "/">>

LayoutFor(relSegs, basePath) ==
    LET relPath == Join(relSegs, <<sep>>)
        depth   == Len(Split(relPath, sep)) - 1
    IN  Repeat(UpDir, depth + 1) \o basePath

\* mutant: the layout: line is appended whether or not the block has one
InjectContent_AlwaysLayout(content, name, relSegs, locale, version, baseLayoutPath, apiLayoutPath) ==
    LET layoutPath == LayoutFor(relSegs, baseLayoutPath)
    IN  IF StartsWith(content, Fence) /\ IndexOf(content, Fence, 3) # -1
        THEN LET endOfFrontmatter == IndexOf(content, Fence, 3)
                 block0 == Trim(Substring(content, 3, endOfFrontmatter))
                 body   == SubstringFrom(content, endOfFrontmatter + 3)
             IN  Fence \o NL \o block0 \o NL \o KwLayout \o <<" ">> \o layoutPath
                   \o NL \o Fence \o body
        ELSE content

InjectContent(content, name, relSegs, locale, version, baseLayoutPath, apiLayoutPath) ==
    LET layoutPath == LayoutFor(relSegs, baseLayoutPath)
    IN  IF StartsWith(content, Fence)
        THEN LET endOfFrontmatter == IndexOf(content, Fence, 3)
             IN  IF endOfFrontmatter # -1
                 THEN LET block0 == Trim(Substring(content, 3, endOfFrontmatter))
                          body   == SubstringFrom(content, endOfFrontmatter + 3)
                          targetLayout ==
                              IF Includes(block0, KwApi)
                              THEN LayoutFor(relSegs, apiLayoutPath)
                              ELSE layoutPath
                          block1 ==
                              IF Truthy(locale) /\ ~Includes(block0, KwLang)
                              THEN KwLang \o <<" ">> \o locale \o NL \o block0
                              ELSE block0
                          block2 ==
                              IF Truthy(version) /\ ~Includes(block1, KwDocVersion)
                              THEN KwDocVersion \o <<" ">> \o version \o NL \o block1
                              ELSE block1
                      IN  IF ~Includes(block2, KwLayout)
                          THEN Fence \o NL \o block2 \o NL \o KwLayout \o <<" ">> \o targetLayout
                                 \o NL \o Fence \o body
                          ELSE Fence \o NL \o block2 \o NL \o Fence \o body
                 ELSE content
        ELSE LET title       == ReplaceHyphens(StripMdExt(name))
                 langLine    == IF Truthy(locale) THEN KwLang \o <<" ">> \o locale \o NL ELSE <<>>
                 versionLine == IF Truthy(version)
                                THEN KwDocVersion \o <<" ">> \o version \o NL ELSE <<>>
             IN  Fence \o NL \o langLine \o versionLine \o KwTitle \o <<" ">> \o title \o NL
                   \o KwLayout \o <<" ">> \o layoutPath \o NL \o Fence \o NL \o NL \o content

\* the pages one call injectLayoutIntoMarkdown(dir, rootDir, ..., skipFolders, ...)
\* rewrites: the .md/.mdx files below dir, except below a directory of dir that
\* skipFolders names (the recursive calls pass no skipFolders)
InjectedPages(tree, dir, skipFolders) ==
    { p \in DOMAIN tree :
        /\ tree[p].kind = "file"
        /\ IsPrefix(dir, p) /\ Len(p) > Len(dir)
        /\ IsMarkdownName(p[Len(p)])
        /\ ~(Len(p) > Len(dir) + 1 /\ p[Len(dir) + 1] \in skipFolders) }

injectLayoutIntoMarkdown(tree, dir, locale, skipFolders, version, fw) ==
    LET baseLayoutPath == IF Truthy(fw.layoutPath) THEN fw.layoutPath ELSE DefaultLayoutPath
        apiLayoutPath  == IF Truthy(fw.apiLayoutPath) THEN fw.apiLayoutPath
                          ELSE DefaultApiLayoutPath
        pages == InjectedPages(tree, dir, skipFolders)
    IN  [p \in DOMAIN tree |->
            IF p \in pages
            THEN FileNode(InjectContent(tree[p].content, p[Len(p)], p, locale, version,
                                        baseLayoutPath, apiLayoutPath))
            ELSE tree[p]]

(***************************************************************************)
(* syncUserAssets, the _css category: src/styles is a map from file name  *)
(* to content.                                                            *)
(***************************************************************************)
ExtCss == <<".", "c", "s", "s">>

AtCharset == <<"@", "c", "h", "a", "r", "s", "e", "t">>

customImport == <<"@", "i", "m", "p", "o", "r", "t", " ", "\"", ".", "/", "c", "u", "s", "t", "o", "m", ".", "c", "s", "s", "\"", ";">>

UserStylesComment == <<"/", "*", " ", "U", "s", "e", "r", " ", "c", "u", "s", "t", "o", "m", " ", "s", "t", "y", "l", "e", "s", " ", "*", "/">>

\* mutant: the import always goes to the top of the file
FindInsertIndex_Top(lines, i) == 0

\* the for loop of lines 335-345, from 0-based line i: the insert index
RECURSIVE FindInsertIndex(_, _)
FindInsertIndex(lines, i) ==
    IF i >= Len(lines) THEN 0
    ELSE LET trimmed == Trim(lines[i + 1])
         IN  IF StartsWith(trimmed, AtCharset) THEN i + 1
             ELSE IF /\ trimmed # <<>>
                     /\ ~StartsWith(trimmed, <<"/", "*">>)
                     /\ ~StartsWith(trimmed, <<"*">>)
                     /\ ~StartsWith(trimmed, <<"/", "/">>)
                  THEN 0
                  ELSE FindInsertIndex(lines, i + 1)

\* lines 331-349: the import spliced in after a leading @charset line
SpliceImport(globalCss) ==
    LET lines       == Split(globalCss, "\n")
        insertIndex == FindInsertIndex(lines, 0)
        spliced     == SubSeq(lines, 1, insertIndex)
                         \o <<UserStylesComment, customImport, <<>> >>
                         \o SubSeq(lines, insertIndex + 1, Len(lines))
    IN  Join(spliced, NL)

\* mutant: the import is inserted without looking for an earlier one
InsertCustomImport_Unchecked(globalCss) == SpliceImport(globalCss)

\* lines 325-351: global.css after the import of custom.css is ensured
InsertCustomImport(globalCss) ==
    IF Includes(globalCss, customImport) THEN globalCss ELSE SpliceImport(globalCss)

\* the _css task of syncUserAssets (lines 283-353)
SyncCss(tree, styles) ==
    LET cssFiles == IF IsDir(tree, <<CssDir>>)
                    THEN { q \in DOMAIN tree :
                             /\ Len(q) = 2 /\ q[1] = CssDir
                             /\ tree[q].kind = "file" /\ EndsWith(q[2], ExtCss) }
                    ELSE {}
        copied   == [n \in DOMAIN styles \cup { q[2] : q \in cssFiles } |->
                        IF <<CssDir, n>> \in cssFiles THEN tree[<<CssDir, n>>].content
                        ELSE styles[n]]
    IN  IF CustomCss \in DOMAIN copied /\ GlobalCss \in DOMAIN copied
        THEN [copied EXCEPT ![GlobalCss] = InsertCustomImport(@)]
        ELSE copied

(***************************************************************************)
(* detectLandingType of landing-sync.js.  landing is docsConfig.landing   *)
(* (present = FALSE when the key is missing: docsConfig?.landing || {}).  *)
(***************************************************************************)
\* mutant: the custom rule is tried before the enabled === false rule
detectLandingType_CustomFirst(landing, hasLandingFolder) ==
    LET landingConfig == IF landing.present THEN landing ELSE NoLanding
    IN  IF landingConfig.type = "custom"
             \/ (hasLandingFolder /\ landingConfig.type = "undefined") THEN "custom"
        ELSE IF landingConfig.enabled = "false" THEN "none"
        ELSE IF landingConfig.type = "sections" /\ landingConfig.sections THEN "sections"
        ELSE IF landingConfig.type = "none" THEN "none"
        ELSE IF landingConfig.hero \/ landingConfig.features THEN "config"
        ELSE "default"

detectLandingType(landing, hasLandingFolder) ==
    LET landingConfig == IF landing.present THEN landing ELSE NoLanding
    IN  IF landingConfig.enabled = "false" THEN "none"
        ELSE IF landingConfig.type = "custom"
                  \/ (hasLandingFolder /\ landingConfig.type = "undefined") THEN "custom"
        ELSE IF landingConfig.type = "sections" /\ landingConfig.sections THEN "sections"
        ELSE IF landingConfig.type = "none" THEN "none"
        ELSE IF landingConfig.hero \/ landingConfig.features THEN "config"
        ELSE "default"

(***************************************************************************)
(* Text matching as the regular expressions of landing-sync.js do it.     *)
(* Positions are 1-based; every pattern is matched without regard to case *)
(* (flag i), so positions are looked up in the lowercased text.           *)
(***************************************************************************)
MaxOf(S) == CHOOSE x \in S : \A y \in S : x >= y

\* the positions at which p occurs in s
Occ(s, p) == { i \in 1 .. (Len(s) - Len(p) + 1) : SubSeq(s, i, i + Len(p) - 1) = p }

\* the first ">" at or after position i, 0 when there is none: what [^>]*> reaches
FirstGt(s, i) ==
    LET gts == { j \in i .. Len(s) : s[j] = ">" }
    IN  IF gts = {} THEN 0 ELSE MinOf(gts)

\* html.replace(/<tag(?![^>]*mark)([^>]*>)/gi, '<tag is:inline$1') from position from
RECURSIVE AddIsInline(_, _, _, _)
AddIsInline(html, tag, marks, from) ==
    LET lower   == ToLowerCase(html)
        matches == { i \in Occ(lower, tag) :
                        /\ i >= from
                        /\ FirstGt(html, i + Len(tag)) # 0
                        /\ \A mk \in marks :
                              ~Includes(SubSeq(lower, i + Len(tag),
                                               FirstGt(html, i + Len(tag)) - 1), mk) }
    IN  IF matches = {} THEN SubSeq(html, from, Len(html))
        ELSE LET i  == MinOf(matches)
                 gt == FirstGt(html, i + Len(tag))
             IN  SubSeq(html, from, i - 1) \o tag \o <<" ", "i", "s", ":", "i", "n", "l", "i", "n", "e">>
                   \o SubSeq(html, i + Len(tag), gt)
                   \o AddIsInline(html, tag, marks, gt + 1)

\* inlineForAstro (lines 22-28)
inlineForAstro(html) ==
    LET scripts == AddIsInline(html, <<"<", "s", "c", "r", "i", "p", "t">>, { <<"i", "s", ":", "i", "n", "l", "i", "n", "e">> }, 1)
    IN  AddIsInline(scripts, <<"<", "s", "t", "y", "l", "e">>, { <<"i", "s", ":", "i", "n", "l", "i", "n", "e">>, <<"i", "s", ":", "g", "l", "o", "b", "a", "l">> }, 1)

\* /<!doctype\s+html|<html[\s>]/i.test(html)
isFullDoc(html) ==
    LET lower == ToLowerCase(html)
    IN  \/ \E i \in Occ(lower, <<"<", "!", "d", "o", "c", "t", "y", "p", "e">>) : \E j \in Occ(lower, <<"h", "t", "m", "l">>) :
              /\ j > i + 9
              /\ \A k \in (i + 9) .. (j - 1) : lower[k] \in WhiteSpace
        \/ \E i \in Occ(lower, <<"<", "h", "t", "m", "l">>) :
              i + 5 <= Len(lower) /\ lower[i + 5] \in WhiteSpace \cup {">"}

\* html.match(/<tag([^>]*)>/i): group 1 trimmed, '' without a match
TagAttrs(html, tag) ==
    LET starts == { i \in Occ(ToLowerCase(html), tag) : FirstGt(html, i + Len(tag)) # 0 }
    IN  IF starts = {} THEN <<>>
        ELSE LET i == MinOf(starts)
             IN  Trim(SubSeq(html, i + Len(tag), FirstGt(html, i + Len(tag)) - 1))

\* html.match(/<tag[^>]*>([\s\S]*)<\/tag>/i): group 1 trimmed, '' without a match;
\* the group is greedy, so it runs to the last closing tag
TagInner(html, tag, closing) ==
    LET lower  == ToLowerCase(html)
        closes == Occ(lower, closing)
        starts == { i \in Occ(lower, tag) :
                       /\ FirstGt(html, i + Len(tag)) # 0
                       /\ \E c \in closes : c > FirstGt(html, i + Len(tag)) }
    IN  IF starts = {} THEN <<>>
        ELSE LET gt == FirstGt(html, MinOf(starts) + Len(tag))
             IN  Trim(SubSeq(html, gt + 1, MaxOf(closes) - 1))

\* parseFullHtmlDocument (lines 35-54); parsed = FALSE stands for null
parseFullHtmlDocument(html) ==
    IF ~isFullDoc(html)
    THEN [parsed |-> FALSE, htmlAttrs |-> <<>>, headContent |-> <<>>,
          bodyContent |-> <<>>, bodyAttrs |-> <<>>]
    ELSE [parsed |-> TRUE,
          htmlAttrs   |-> TagAttrs(html, <<"<", "h", "t", "m", "l">>),
          headContent |-> TagInner(html, <<"<", "h", "e", "a", "d">>, <<"<", "/", "h", "e", "a", "d", ">">>),
          bodyContent |-> TagInner(html, <<"<", "b", "o", "d", "y">>, <<"<", "/", "b", "o", "d", "y", ">">>),
          bodyAttrs   |-> TagAttrs(html, <<"<", "b", "o", "d", "y">>)]

(***************************************************************************)
(* syncCustomLanding of landing-sync.js.  A generator returns the files   *)
(* it writes, as a map from the path below projectDir to the content.     *)
(***************************************************************************)
\* no file: the empty map from path to content
NoFiles == << >>

SrcDir == <<"s", "r", "c">>

PagesDir == <<"p", "a", "g", "e", "s">>

StylesDir == <<"s", "t", "y", "l", "e", "s">>

DataDir == <<"d", "a", "t", "a">>

AppDir == <<"a", "p", "p">>

PublicDir == <<"p", "u", "b", "l", "i", "c">>

LandingOut == <<"l", "a", "n", "d", "i", "n", "g">>

LandingCss == <<"l", "a", "n", "d", "i", "n", "g", ".", "c", "s", "s">>

IndexJsx == <<"i", "n", "d", "e", "x", ".", "j", "s", "x">>

IndexVue == <<"i", "n", "d", "e", "x", ".", "v", "u", "e">>

PageJsx == <<"p", "a", "g", "e", ".", "j", "s", "x">>

LandingSectionsJson == <<"l", "a", "n", "d", "i", "n", "g", "-", "s", "e", "c", "t", "i", "o", "n", "s", ".", "j", "s", "o", "n">>

HiddenMark == <<"_", "_", "h", "i", "d", "d", "e", "n", "_", "_">>

\* path.extname(name)
extname(name) ==
    LET dots == { i \in 2 .. Len(name) : name[i] = "." }
    IN  IF dots = {} THEN <<>> ELSE SubSeq(name, MaxOf(dots), Len(name))

\* path.basename(name, ext)
basename(name, ext) ==
    IF ext # <<>> /\ EndsWith(name, ext) /\ Len(name) > Len(ext)
    THEN SubSeq(name, 1, Len(name) - Len(ext))
    ELSE name

\* readdir(dir): the entries directly inside dir
Entries(tree, dir) == { q \in DOMAIN tree : Len(q) = Len(dir) + 1 /\ IsPrefix(dir, q) }

\* a set of names as the list readdir returns; the order is the file system's
RECURSIVE Listing(_)
Listing(names) ==
    IF names = {} THEN <<>>
    ELSE LET n == CHOOSE x \in names : TRUE IN <<n>> \o Listing(names \ {n})

\* writes with one more file
Put(writes, path, content) ==
    [q \in DOMAIN writes \cup {path} |-> IF q = path THEN content ELSE writes[q]]

\* two sets of writes, the later one winning
Both(first, later) ==
    [q \in DOMAIN first \cup DOMAIN later |-> IF q \in DOMAIN later THEN later[q] ELSE first[q]]

\* join(sourcePath, landingConfig.source || '_landing')
landingSource(landingConfig) ==
    IF Truthy(landingConfig.source) THEN <<landingConfig.source>> ELSE <<LandingDir>>

NavbarNames == { <<"n", "a", "v", "b", "a", "r">>, <<"n", "a", "v">>, <<"h", "e", "a", "d", "e", "r">> }

FooterName == <<"f", "o", "o", "t", "e", "r">>

\* lines 139-179: the files of the landing folder by kind
ClassifyLandingFiles(tree, landingConfig) ==
    LET dir       == landingSource(landingConfig)
        files     == { q[Len(q)] : q \in { e \in Entries(tree, dir) : tree[e].kind = "file" } }
        ext(f)    == ToLowerCase(extname(f))
        name(f)   == ToLowerCase(basename(f, ext(f)))
        isHtml(f) == ext(f) \in { <<".", "h", "t", "m", "l">>, <<".", "h", "t", "m">> }
        navbarHidden == landingConfig.navbar.hidden
        footerHidden == landingConfig.footer.hidden
    IN  [navbarFiles |-> { f \in files : isHtml(f) /\ ~navbarHidden /\ name(f) \in NavbarNames },
         footerFiles |-> { f \in files : isHtml(f) /\ ~footerHidden /\ name(f) = FooterName },
         htmlFiles   |-> { f \in files : isHtml(f) /\ name(f) \notin NavbarNames \cup {FooterName} },
         cssFiles    |-> { f \in files : ext(f) = ExtCss },
         jsFiles     |-> { f \in files : ext(f) \in { <<".", "j", "s">>, <<".", "m", "j", "s">> } }]

\* lines 182-204 and 261-294: hidden, else the file found in the landing folder when it
\* has content, else the config-declared path below configBase when it exists
ResolveRegion(tree, region, found, configBase) ==
    LET sniffed == IF found = {} THEN Null
                   ELSE tree[CHOOSE q \in found : TRUE].content
    IN  IF region.hidden THEN HiddenMark
        ELSE IF Truthy(sniffed) THEN sniffed
        ELSE IF Truthy(region.html) /\ configBase \o region.html \in DOMAIN tree
             THEN tree[configBase \o region.html].content
        ELSE sniffed

headerImport(navbarContent) ==
    IF navbarContent = HiddenMark \/ Truthy(navbarContent) THEN <<>>
    ELSE <<"i", "m", "p", "o", "r", "t", " ", "H", "e", "a", "d", "e", "r", " ", "f", "r", "o", "m", " ", "'", ".", ".", "/", "c", "o", "m", "p", "o", "n", "e", "n", "t", "s", "/", "H", "e", "a", "d", "e", "r", ".", "a", "s", "t", "r", "o", "'", ";">>

footerImport(footerContent) ==
    IF footerContent = HiddenMark \/ Truthy(footerContent) THEN <<>>
    ELSE <<"i", "m", "p", "o", "r", "t", " ", "F", "o", "o", "t", "e", "r", " ", "f", "r", "o", "m", " ", "'", ".", ".", "/", "c", "o", "m", "p", "o", "n", "e", "n", "t", "s", "/", "F", "o", "o", "t", "e", "r", ".", "a", "s", "t", "r", "o", "'", ";">>

headerRender(navbarContent) ==
    IF navbarContent = HiddenMark THEN <<>>
    ELSE IF Truthy(navbarContent)
         THEN <<"<", "h", "e", "a", "d", "e", "r", " ", "c", "l", "a", "s", "s", "=", "\"", "l", "a", "n", "d", "i", "n", "g", "-", "c", "u", "s", "t", "o", "m", "-", "n", "a", "v", "b", "a", "r", "\"", ">", "\n", " ", " ", " ", " ", " ", " ">> \o inlineForAstro(navbarContent) \o <<"\n", " ", " ", " ", " ", "<", "/", "h", "e", "a", "d", "e", "r", ">">>
    ELSE <<"<", "H", "e", "a", "d", "e", "r", " ", "/", ">">>

footerRender(footerContent) ==
    IF footerContent = HiddenMark THEN <<>>
    ELSE IF Truthy(footerContent)
         THEN <<"<", "f", "o", "o", "t", "e", "r", " ", "c", "l", "a", "s", "s", "=", "\"", "l", "a", "n", "d", "i", "n", "g", "-", "c", "u", "s", "t", "o", "m", "-", "f", "o", "o", "t", "e", "r", "\"", ">", "\n", " ", " ", " ", " ", " ", " ">> \o inlineForAstro(footerContent) \o <<"\n", " ", " ", " ", " ", "<", "/", "f", "o", "o", "t", "e", "r", ">">>
    ELSE <<"<", "F", "o", "o", "t", "e", "r", " ", "/", ">">>

\* jsContent ? '<script is:inline>\n' + jsContent + '\n</script>' : ''
ScriptBlock(jsContent) ==
    IF Truthy(jsContent) THEN <<"<", "s", "c", "r", "i", "p", "t", " ", "i", "s", ":", "i", "n", "l", "i", "n", "e", ">", "\n">> \o jsContent \o <<"\n", "<", "/", "s", "c", "r", "i", "p", "t", ">">>
    ELSE <<>>

\* generateAstroFromFullDoc (lines 399-445)
generateAstroFromFullDoc(parsed, jsContent, navbarContent, footerContent) ==
    <<"-", "-", "-", "\n", "/", "/", " ", "C", "u", "s", "t", "o", "m", " ", "l", "a", "n", "d", "i", "n", "g", " ", "p", "a", "g", "e", " ", "-", " ", "a", "u", "t", "o", "-", "g", "e", "n", "e", "r", "a", "t", "e", "d", " ", "b", "y", " ", "L", "i", "t", "o", " ", "C", "L", "I", "\n", "/", "/", " ", "S", "o", "u", "r", "c", "e", ":", " ", "_", "l", "a", "n", "d", "i", "n", "g", "/", " ", "f", "o", "l", "d", "e", "r", " ", "(", "f", "u", "l", "l", " ", "H", "T", "M", "L", " ", "d", "o", "c", "u", "m", "e", "n", "t", ")", "\n", "i", "m", "p", "o", "r", "t", " ", "'", ".", ".", "/", "s", "t", "y", "l", "e", "s", "/", "l", "a", "n", "d", "i", "n", "g", ".", "c", "s", "s", "'", ";", "\n">> \o headerImport(navbarContent) \o NL \o footerImport(footerContent) \o <<"\n", "-", "-", "-", "\n", "\n", "<", "!", "d", "o", "c", "t", "y", "p", "e", " ", "h", "t", "m", "l", ">", "\n", "<", "h", "t", "m", "l", " ">> \o parsed.htmlAttrs \o <<">", "\n", " ", " ", "<", "h", "e", "a", "d", ">", "\n", " ", " ", " ", " ">> \o parsed.headContent \o <<"\n", " ", " ", "<", "/", "h", "e", "a", "d", ">", "\n", " ", " ", "<", "b", "o", "d", "y", " ">> \o parsed.bodyAttrs \o <<">", "\n", " ", " ", " ", " ">> \o headerRender(navbarContent) \o <<"\n", "\n", " ", " ", " ", " ">> \o parsed.bodyContent \o <<"\n", "\n", " ", " ", " ", " ">> \o footerRender(footerContent) \o <<"\n", "\n", " ", " ", " ", " ">> \o ScriptBlock(jsContent) \o <<"\n", " ", " ", "<", "/", "b", "o", "d", "y", ">", "\n", "<", "/", "h", "t", "m", "l", ">", "\n">>

\* generateAstroFromFragment (lines 451-515); of the fixed head of the shell
\* (lines 485-500) the charset and the title are kept
generateAstroFromFragment(htmlContent, jsContent, navbarContent, footerContent) ==
    <<"-", "-", "-", "\n", "/", "/", " ", "C", "u", "s", "t", "o", "m", " ", "l", "a", "n", "d", "i", "n", "g", " ", "p", "a", "g", "e", " ", "-", " ", "a", "u", "t", "o", "-", "g", "e", "n", "e", "r", "a", "t", "e", "d", " ", "b", "y", " ", "L", "i", "t", "o", " ", "C", "L", "I", "\n", "/", "/", " ", "S", "o", "u", "r", "c", "e", ":", " ", "_", "l", "a", "n", "d", "i", "n", "g", "/", " ", "f", "o", "l", "d", "e", "r", "\n", "i", "m", "p", "o", "r", "t", " ", "'", ".", ".", "/", "s", "t", "y", "l", "e", "s", "/", "g", "l", "o", "b", "a", "l", ".", "c", "s", "s", "'", ";", "\n", "i", "m", "p", "o", "r", "t", " ", "'", ".", ".", "/", "s", "t", "y", "l", "e", "s", "/", "l", "a", "n", "d", "i", "n", "g", ".", "c", "s", "s", "'", ";", "\n">> \o headerImport(navbarContent) \o NL \o footerImport(footerContent) \o <<"\n", "i", "m", "p", "o", "r", "t", " ", "{", " ", "g", "e", "t", "C", "o", "n", "f", "i", "g", "F", "i", "l", "e", " ", "}", " ", "f", "r", "o", "m", " ", "'", ".", ".", "/", "u", "t", "i", "l", "s", "/", "c", "o", "n", "f", "i", "g", "'", ";", "\n", "\n", "c", "o", "n", "s", "t", " ", "c", "o", "n", "f", "i", "g", " ", "=", " ", "a", "w", "a", "i", "t", " ", "g", "e", "t", "C", "o", "n", "f", "i", "g", "F", "i", "l", "e", "(", ")", ";", "\n", "-", "-", "-", "\n", "\n", "<", "!", "d", "o", "c", "t", "y", "p", "e", " ", "h", "t", "m", "l", ">", "\n", "<", "h", "t", "m", "l", " ", "l", "a", "n", "g", "=", "\"", "e", "n", "\"", " ", "c", "l", "a", "s", "s", "=", "\"", "d", "a", "r", "k", "\"", ">", "\n", " ", " ", "<", "h", "e", "a", "d", ">", "\n", " ", " ", " ", " ", "<", "m", "e", "t", "a", " ", "c", "h", "a", "r", "s", "e", "t", "=", "\"", "U", "T", "F", "-", "8", "\"", " ", "/", ">", "\n", " ", " ", " ", " ", "<", "t", "i", "t", "l", "e", ">", "{", "c", "o", "n", "f", "i", "g", ".", "m", "e", "t", "a", "d", "a", "t", "a", "?", ".", "n", "a", "m", "e", " ", "|", "|", " ", "'", "H", "o", "m", "e", "'", "}", "<", "/", "t", "i", "t", "l", "e", ">", "\n", " ", " ", "<", "/", "h", "e", "a", "d", ">", "\n", " ", " ", "<", "b", "o", "d", "y", " ", "c", "l", "a", "s", "s", "=", "\"", "b", "g", "-", "b", "a", "c", "k", "g", "r", "o", "u", "n", "d", " ", "t", "e", "x", "t", "-", "f", "o", "r", "e", "g", "r", "o", "u", "n", "d", " ", "f", "o", "n", "t", "-", "s", "a", "n", "s", " ", "a", "n", "t", "i", "a", "l", "i", "a", "s", "e", "d", "\"", ">", "\n", " ", " ", " ", " ">> \o headerRender(navbarContent) \o <<"\n", "\n", " ", " ", " ", " ", "<", "m", "a", "i", "n", " ", "c", "l", "a", "s", "s", "=", "\"", "l", "a", "n", "d", "i", "n", "g", "-", "c", "u", "s", "t", "o", "m", "\"", ">", "\n", " ", " ", " ", " ", " ", " ">> \o htmlContent \o <<"\n", " ", " ", " ", " ", "<", "/", "m", "a", "i", "n", ">", "\n", "\n", " ", " ", " ", " ">> \o footerRender(footerContent) \o <<"\n", "\n", " ", " ", " ", " ">> \o ScriptBlock(jsContent) \o <<"\n", " ", " ", "<", "/", "b", "o", "d", "y", ">", "\n", "<", "/", "h", "t", "m", "l", ">", "\n">>

\* the files of the landing folder read one after the other: open, name, close, text, '\n\n'
RECURSIVE ConcatFiles(_, _, _, _, _)
ConcatFiles(tree, dir, files, open, close) ==
    IF files = <<>> THEN <<>>
    ELSE open \o Head(files) \o close \o tree[dir \o <<Head(files)>>].content \o <<"\n", "\n">> \o ConcatFiles(tree, dir, Tail(files), open, close)

\* the cssContent of the generators
CssContent(tree, landingData) ==
    ConcatFiles(tree, landingData.sourcePath, landingData.cssFiles, <<"/", "*", " ">>, <<" ", "*", "/", "\n">>)

\* the jsContent of the astro, react and next generators
JsContent(tree, landingData) ==
    ConcatFiles(tree, landingData.sourcePath, landingData.jsFiles, <<"/", "/", " ">>, <<"\n">>)

\* the jsContent of the vue and nuxt generators: js + '\n' for each file
RECURSIVE JsLines(_, _, _)
JsLines(tree, dir, files) ==
    IF files = <<>> THEN <<>>
    ELSE tree[dir \o <<Head(files)>>].content \o NL \o JsLines(tree, dir, Tail(files))

\* htmlFiles.includes('index.html') ? 'index.html' : htmlFiles[0]; Null when there is none
MainHtml(landingData) ==
    IF IndexHtml \in Range(landingData.htmlFiles) THEN IndexHtml
    ELSE IF landingData.htmlFiles = <<>> THEN Null
    ELSE landingData.htmlFiles[1]

\* the character U+0060, which the template literals of the generators escape
Backtick == "U+0060"

\* htmlContent.replace(/U+0060/g, '\\U+0060').replace(/\$/g, '\\$')
RECURSIVE EscapeTemplate(_)
EscapeTemplate(s) ==
    IF s = <<>> THEN <<>>
    ELSE (IF Head(s) \in {Backtick, "$"} THEN <<"\\", Head(s)>> ELSE <<Head(s)>>)
           \o EscapeTemplate(Tail(s))

AssetDirs == { <<"a", "s", "s", "e", "t", "s">>, <<"i", "m", "a", "g", "e", "s">>, <<"i", "m", "g">>, <<"i", "c", "o", "n", "s">> }

ImageExts == { <<".", "p", "n", "g">>, <<".", "j", "p", "g">>, <<".", "j", "p", "e", "g">>, <<".", "g", "i", "f">>, <<".", "s", "v", "g">>, <<".", "w", "e", "b", "p">>, <<".", "i", "c", "o">> }

\* copyLandingAssets (lines 883-912): the asset folders and the images of the landing
\* folder go to public/landing
copyLandingAssets(tree, dir) ==
    LET below  == { q \in DOMAIN tree :
                      /\ tree[q].kind = "file" /\ IsPrefix(dir, q) /\ Len(q) > Len(dir) + 1
                      /\ q[Len(dir) + 1] \in AssetDirs }
        images == { q \in Entries(tree, dir) : ToLowerCase(extname(q[Len(q)])) \in ImageExts }
        out(q) == <<PublicDir, LandingOut>> \o SubSeq(q, Len(dir) + 1, Len(q))
    IN  [p \in { out(q) : q \in below \cup images } |->
            tree[CHOOSE q \in below \cup images : out(q) = p].content]

\* generateAstroLanding (lines 340-393)
generateAstroLanding(tree, landingData) ==
    LET mainHtml == MainHtml(landingData)
        htmlContent == inlineForAstro(tree[landingData.sourcePath \o <<mainHtml>>].content)
        jsContent == JsContent(tree, landingData)
        parsed == parseFullHtmlDocument(htmlContent)
        astroContent ==
            IF parsed.parsed
            THEN generateAstroFromFullDoc(parsed, jsContent, landingData.navbarContent,
                                          landingData.footerContent)
            ELSE generateAstroFromFragment(htmlContent, jsContent, landingData.navbarContent,
                                           landingData.footerContent)
    IN  IF mainHtml = Null THEN NoFiles
        ELSE Both(Put(Put(NoFiles, <<SrcDir, StylesDir, LandingCss>>,
                          CssContent(tree, landingData)),
                      <<SrcDir, PagesDir, IndexAstro>>, astroContent),
                  copyLandingAssets(tree, landingData.sourcePath))

\* generateReactLanding (lines 520-579)
generateReactLanding(tree, landingData) ==
    LET mainHtml == MainHtml(landingData)
        htmlContent == tree[landingData.sourcePath \o <<mainHtml>>].content
        reactContent == <<"/", "/", " ", "C", "u", "s", "t", "o", "m", " ", "l", "a", "n", "d", "i", "n", "g", " ", "p", "a", "g", "e", " ", "-", " ", "a", "u", "t", "o", "-", "g", "e", "n", "e", "r", "a", "t", "e", "d", " ", "b", "y", " ", "L", "i", "t", "o", " ", "C", "L", "I", "\n", "/", "/", " ", "S", "o", "u", "r", "c", "e", ":", " ", "_", "l", "a", "n", "d", "i", "n", "g", "/", " ", "f", "o", "l", "d", "e", "r", "\n", "i", "m", "p", "o", "r", "t", " ", "{", " ", "u", "s", "e", "E", "f", "f", "e", "c", "t", " ", "}", " ", "f", "r", "o", "m", " ", "'", "r", "e", "a", "c", "t", "'", ";", "\n", "i", "m", "p", "o", "r", "t", " ", "'", ".", ".", "/", "s", "t", "y", "l", "e", "s", "/", "l", "a", "n", "d", "i", "n", "g", ".", "c", "s", "s", "'", ";", "\n", "\n", "e", "x", "p", "o", "r", "t", " ", "d", "e", "f", "a", "u", "l", "t", " ", "f", "u", "n", "c", "t", "i", "o", "n", " ", "L", "a", "n", "d", "i", "n", "g", "P", "a", "g", "e", "(", ")", " ", "{", "\n", " ", " ", "u", "s", "e", "E", "f", "f", "e", "c", "t", "(", "(", ")", " ", "=", ">", " ", "{", "\n", " ", " ", " ", " ", "/", "/", " ", "L", "a", "n", "d", "i", "n", "g", " ", "p", "a", "g", "e", " ", "s", "c", "r", "i", "p", "t", "s", "\n", " ", " ", " ", " ">> \o JsContent(tree, landingData) \o <<"\n", " ", " ", "}", ",", " ", "[", "]", ")", ";", "\n", "\n", " ", " ", "r", "e", "t", "u", "r", "n", " ", "(", "\n", " ", " ", " ", " ", "<", "m", "a", "i", "n", "\n", " ", " ", " ", " ", " ", " ", "c", "l", "a", "s", "s", "N", "a", "m", "e", "=", "\"", "l", "a", "n", "d", "i", "n", "g", "-", "c", "u", "s", "t", "o", "m", "\"", "\n", " ", " ", " ", " ", " ", " ", "d", "a", "n", "g", "e", "r", "o", "u", "s", "l", "y", "S", "e", "t", "I", "n", "n", "e", "r", "H", "T", "M", "L", "=", "{", "{", " ", "_", "_", "h", "t", "m", "l", ":", " ", Backtick>> \o EscapeTemplate(htmlContent) \o <<Backtick, " ", "}", "}", "\n", " ", " ", " ", " ", "/", ">", "\n", " ", " ", ")", ";", "\n", "}", "\n">>
    IN  IF mainHtml = Null THEN NoFiles
        ELSE Both(Put(Put(NoFiles, <<SrcDir, StylesDir, LandingCss>>,
                          CssContent(tree, landingData)),
                      <<SrcDir, PagesDir, IndexJsx>>, reactContent),
                  copyLandingAssets(tree, landingData.sourcePath))

\* generateNextLanding (lines 584-644)
generateNextLanding(tree, landingData) ==
    LET mainHtml == MainHtml(landingData)
        htmlContent == tree[landingData.sourcePath \o <<mainHtml>>].content
        nextContent == <<"/", "/", " ", "C", "u", "s", "t", "o", "m", " ", "l", "a", "n", "d", "i", "n", "g", " ", "p", "a", "g", "e", " ", "-", " ", "a", "u", "t", "o", "-", "g", "e", "n", "e", "r", "a", "t", "e", "d", " ", "b", "y", " ", "L", "i", "t", "o", " ", "C", "L", "I", "\n", "/", "/", " ", "S", "o", "u", "r", "c", "e", ":", " ", "_", "l", "a", "n", "d", "i", "n", "g", "/", " ", "f", "o", "l", "d", "e", "r", "\n", "'", "u", "s", "e", " ", "c", "l", "i", "e", "n", "t", "'", ";", "\n", "\n", "i", "m", "p", "o", "r", "t", " ", "{", " ", "u", "s", "e", "E", "f", "f", "e", "c", "t", " ", "}", " ", "f", "r", "o", "m", " ", "'", "r", "e", "a", "c", "t", "'", ";", "\n", "i", "m", "p", "o", "r", "t", " ", "'", ".", "/", "l", "a", "n", "d", "i", "n", "g", ".", "c", "s", "s", "'", ";", "\n", "\n", "e", "x", "p", "o", "r", "t", " ", "d", "e", "f", "a", "u", "l", "t", " ", "f", "u", "n", "c", "t", "i", "o", "n", " ", "H", "o", "m", "e", "(", ")", " ", "{", "\n", " ", " ", "u", "s", "e", "E", "f", "f", "e", "c", "t", "(", "(", ")", " ", "=", ">", " ", "{", "\n", " ", " ", " ", " ", "/", "/", " ", "L", "a", "n", "d", "i", "n", "g", " ", "p", "a", "g", "e", " ", "s", "c", "r", "i", "p", "t", "s", "\n", " ", " ", " ", " ">> \o JsContent(tree, landingData) \o <<"\n", " ", " ", "}", ",", " ", "[", "]", ")", ";", "\n", "\n", " ", " ", "r", "e", "t", "u", "r", "n", " ", "(", "\n", " ", " ", " ", " ", "<", "m", "a", "i", "n", "\n", " ", " ", " ", " ", " ", " ", "c", "l", "a", "s", "s", "N", "a", "m", "e", "=", "\"", "l", "a", "n", "d", "i", "n", "g", "-", "c", "u", "s", "t", "o", "m", "\"", "\n", " ", " ", " ", " ", " ", " ", "d", "a", "n", "g", "e", "r", "o", "u", "s", "l", "y", "S", "e", "t", "I", "n", "n", "e", "r", "H", "T", "M", "L", "=", "{", "{", " ", "_", "_", "h", "t", "m", "l", ":", " ", Backtick>> \o EscapeTemplate(htmlContent) \o <<Backtick, " ", "}", "}", "\n", " ", " ", " ", " ", "/", ">", "\n", " ", " ", ")", ";", "\n", "}", "\n">>
    IN  IF mainHtml = Null THEN NoFiles
        ELSE Both(Put(Put(NoFiles, <<AppDir, LandingCss>>, CssContent(tree, landingData)),
                      <<AppDir, PageJsx>>, nextContent),
                  copyLandingAssets(tree, landingData.sourcePath))

\* the single-file component of generateVueLanding and generateNuxtLanding
VueComponent(setupOpen, setupClose, tree, landingData) ==
    LET htmlContent == tree[landingData.sourcePath \o <<MainHtml(landingData)>>].content
    IN  <<"<", "s", "c", "r", "i", "p", "t", " ", "s", "e", "t", "u", "p", ">", "\n", "/", "/", " ", "C", "u", "s", "t", "o", "m", " ", "l", "a", "n", "d", "i", "n", "g", " ", "p", "a", "g", "e", " ", "-", " ", "a", "u", "t", "o", "-", "g", "e", "n", "e", "r", "a", "t", "e", "d", " ", "b", "y", " ", "L", "i", "t", "o", " ", "C", "L", "I", "\n", "/", "/", " ", "S", "o", "u", "r", "c", "e", ":", " ", "_", "l", "a", "n", "d", "i", "n", "g", "/", " ", "f", "o", "l", "d", "e", "r", "\n">> \o setupOpen \o EscapeTemplate(htmlContent) \o setupClose \o <<"\n", "\n", "o", "n", "M", "o", "u", "n", "t", "e", "d", "(", "(", ")", " ", "=", ">", " ", "{", "\n", " ", " ", "/", "/", " ", "L", "a", "n", "d", "i", "n", "g", " ", "p", "a", "g", "e", " ", "s", "c", "r", "i", "p", "t", "s", "\n", " ", " ">> \o JsLines(tree, landingData.sourcePath, landingData.jsFiles) \o <<"\n", "}", ")", ";", "\n", "<", "/", "s", "c", "r", "i", "p", "t", ">", "\n", "\n", "<", "t", "e", "m", "p", "l", "a", "t", "e", ">", "\n", " ", " ", "<", "m", "a", "i", "n", " ", "c", "l", "a", "s", "s", "=", "\"", "l", "a", "n", "d", "i", "n", "g", "-", "c", "u", "s", "t", "o", "m", "\"", " ", "v", "-", "h", "t", "m", "l", "=", "\"", "l", "a", "n", "d", "i", "n", "g", "H", "t", "m", "l", "\"", ">", "<", "/", "m", "a", "i", "n", ">", "\n", "<", "/", "t", "e", "m", "p", "l", "a", "t", "e", ">", "\n", "\n", "<", "s", "t", "y", "l", "e", " ", "s", "c", "o", "p", "e", "d", ">", "\n">> \o CssContent(tree, landingData) \o <<"\n", "<", "/", "s", "t", "y", "l", "e", ">", "\n">>

\* generateVueLanding (lines 649-705)
generateVueLanding(tree, landingData) ==
    IF MainHtml(landingData) = Null THEN NoFiles
    ELSE Both(Put(NoFiles, <<SrcDir, PagesDir, IndexVue>>,
                  VueComponent(<<"i", "m", "p", "o", "r", "t", " ", "{", " ", "o", "n", "M", "o", "u", "n", "t", "e", "d", ",", " ", "r", "e", "f", " ", "}", " ", "f", "r", "o", "m", " ", "'", "v", "u", "e", "'", ";", "\n", "\n", "c", "o", "n", "s", "t", " ", "l", "a", "n", "d", "i", "n", "g", "H", "t", "m", "l", " ", "=", " ", "r", "e", "f", "(", Backtick>>, <<Backtick, ")", ";">>, tree, landingData)),
              copyLandingAssets(tree, landingData.sourcePath))

\* generateNuxtLanding (lines 710-765)
generateNuxtLanding(tree, landingData) ==
    IF MainHtml(landingData) = Null THEN NoFiles
    ELSE Both(Put(NoFiles, <<PagesDir, IndexVue>>,
                  VueComponent(<<"\n", "c", "o", "n", "s", "t", " ", "l", "a", "n", "d", "i", "n", "g", "H", "t", "m", "l", " ", "=", " ", Backtick>>, <<Backtick, ";">>, tree, landingData)),
              copyLandingAssets(tree, landingData.sourcePath))

\* generateLandingForFramework (lines 312-335)
generateLandingForFramework(tree, fw, landingData) ==
    CASE fw.name = "astro" -> generateAstroLanding(tree, landingData)
      [] fw.name = "react" -> generateReactLanding(tree, landingData)
      [] fw.name = "next"  -> generateNextLanding(tree, landingData)
      [] fw.name = "vue"   -> generateVueLanding(tree, landingData)
      [] fw.name = "nuxt"  -> generateNuxtLanding(tree, landingData)
      [] OTHER             -> generateAstroLanding(tree, landingData)

\* syncCustomLanding (lines 130-221)
syncCustomLanding(tree, fw, landingConfig) ==
    LET dir   == landingSource(landingConfig)
        files == ClassifyLandingFiles(tree, landingConfig)
        paths(names) == { dir \o <<f>> : f \in names }
        landingData ==
            [sourcePath    |-> dir,
             htmlFiles     |-> Listing(files.htmlFiles),
             cssFiles      |-> Listing(files.cssFiles),
             jsFiles       |-> Listing(files.jsFiles),
             navbarContent |-> ResolveRegion(tree, landingConfig.navbar,
                                             paths(files.navbarFiles), <<>>),
             footerContent |-> ResolveRegion(tree, landingConfig.footer,
                                             paths(files.footerFiles), <<>>)]
    IN  IF dir \notin DOMAIN tree THEN NoFiles
        ELSE generateLandingForFramework(tree, fw, landingData)

(***************************************************************************)
(* syncSectionsLanding of landing-sync.js.  A section of the config is    *)
(* [type, html, content]: html is the path of its file below sourcePath   *)
(* (Null without one) and content is what the sync loads from it.         *)
(***************************************************************************)
SectionCustom == <<"c", "u", "s", "t", "o", "m">>

Section(type, html) == [type |-> type, html |-> html, content |-> Null]

\* lines 231-253: the sections with the HTML of the custom ones attached
ProcessSections(tree, sections) ==
    [i \in DOMAIN sections |->
        LET section == sections[i]
        IN  IF /\ section.type = SectionCustom /\ Truthy(section.html)
               /\ section.html \in DOMAIN tree
            THEN [section EXCEPT !.content = tree[section.html].content]
            ELSE section]

\* lines 264-273: the first of navbar.html, nav.html, header.html that exists
FirstNavbarFile(tree, dir) ==
    LET names == << <<"n", "a", "v", "b", "a", "r", ".", "h", "t", "m", "l">>, <<"n", "a", "v", ".", "h", "t", "m", "l">>, <<"h", "e", "a", "d", "e", "r", ".", "h", "t", "m", "l">> >>
        there == { i \in 1 .. 3 : dir \o <<names[i]>> \in DOMAIN tree }
    IN  IF there = {} THEN {} ELSE { dir \o <<names[MinOf(there)]>> }

Digits == <<"0", "1", "2", "3", "4", "5", "6", "7", "8", "9">>

\* a number as the template literal prints it
RECURSIVE NumberText(_)
NumberText(n) == IF n < 10 THEN <<Digits[n + 1]>> ELSE NumberText(n \div 10) \o <<Digits[(n % 10) + 1]>>

\* String.prototype.toUpperCase on one character
ToUpperChar(c) ==
    IF c \in Range(Lowercase) THEN Uppercase[CHOOSE i \in 1 .. 26 : Lowercase[i] = c] ELSE c

\* section.content.replace(/U+0060/g, '\\U+0060')
RECURSIVE EscapeBackticks(_)
EscapeBackticks(s) ==
    IF s = <<>> THEN <<>>
    ELSE (IF Head(s) = Backtick THEN <<"\\", Backtick>> ELSE <<Head(s)>>)
           \o EscapeBackticks(Tail(s))

\* lines 796-810: the render of the section at 0-based position index
SectionRender(section, index) ==
    IF section.type = SectionCustom /\ Truthy(section.content)
    THEN <<"\n", " ", " ", "<", "!", "-", "-", " ", "C", "u", "s", "t", "o", "m", " ", "S", "e", "c", "t", "i", "o", "n", " ">> \o NumberText(index + 1) \o <<" ", "-", "-", ">", "\n", " ", " ", "<", "s", "e", "c", "t", "i", "o", "n", " ", "c", "l", "a", "s", "s", "=", "\"", "l", "a", "n", "d", "i", "n", "g", "-", "s", "e", "c", "t", "i", "o", "n", " ", "l", "a", "n", "d", "i", "n", "g", "-", "s", "e", "c", "t", "i", "o", "n", "-", "c", "u", "s", "t", "o", "m", "\"", " ", "i", "d", "=", "\"", "s", "e", "c", "t", "i", "o", "n", "-">> \o NumberText(index) \o <<"\"", ">", "\n", " ", " ", " ", " ", "<", "F", "r", "a", "g", "m", "e", "n", "t", " ", "s", "e", "t", ":", "h", "t", "m", "l", "=", "{", Backtick>> \o EscapeBackticks(section.content) \o <<Backtick, "}", " ", "/", ">", "\n", " ", " ", "<", "/", "s", "e", "c", "t", "i", "o", "n", ">">>
    ELSE LET componentName == <<ToUpperChar(section.type[1])>> \o Tail(section.type)
                                \o <<"S", "e", "c", "t", "i", "o", "n">>
         IN  <<"\n", " ", " ", "<", "!", "-", "-", " ">> \o section.type \o <<" ", "S", "e", "c", "t", "i", "o", "n", " ", "-", "-", ">", "\n", " ", " ", "{", "A", "s", "t", "r", "o", ".", "g", "l", "o", "b", "(", "'", ".", ".", "/", "c", "o", "m", "p", "o", "n", "e", "n", "t", "s", "/", "l", "a", "n", "d", "i", "n", "g", "/">> \o componentName \o <<".", "a", "s", "t", "r", "o", "'", ")", ".", "t", "h", "e", "n", "(", "m", " ", "=", ">", " ", "m", "[", "0", "]", " ", "?", " ", "<", "m", "[", "0", "]", ".", "d", "e", "f", "a", "u", "l", "t", " ", "{", ".", ".", ".", "{", "}", "}", " ", "/", ">", " ", ":", " ", "n", "u", "l", "l", ")", "}">>

\* generateAstroSectionsLanding (lines 792-871): the page; of the fixed head of the
\* shell (lines 845-859) the charset and the title are kept
AstroSectionsPage(sections, navbarContent, footerContent) ==
    <<"-", "-", "-", "\n", "/", "/", " ", "S", "e", "c", "t", "i", "o", "n", "s", "-", "b", "a", "s", "e", "d", " ", "l", "a", "n", "d", "i", "n", "g", " ", "p", "a", "g", "e", " ", "-", " ", "a", "u", "t", "o", "-", "g", "e", "n", "e", "r", "a", "t", "e", "d", " ", "b", "y", " ", "L", "i", "t", "o", " ", "C", "L", "I", "\n", "i", "m", "p", "o", "r", "t", " ", "'", ".", ".", "/", "s", "t", "y", "l", "e", "s", "/", "g", "l", "o", "b", "a", "l", ".", "c", "s", "s", "'", ";", "\n">> \o headerImport(navbarContent) \o NL \o footerImport(footerContent) \o <<"\n", "i", "m", "p", "o", "r", "t", " ", "{", " ", "g", "e", "t", "C", "o", "n", "f", "i", "g", "F", "i", "l", "e", " ", "}", " ", "f", "r", "o", "m", " ", "'", ".", ".", "/", "u", "t", "i", "l", "s", "/", "c", "o", "n", "f", "i", "g", "'", ";", "\n", "\n", "c", "o", "n", "s", "t", " ", "c", "o", "n", "f", "i", "g", " ", "=", " ", "a", "w", "a", "i", "t", " ", "g", "e", "t", "C", "o", "n", "f", "i", "g", "F", "i", "l", "e", "(", ")", ";", "\n", "-", "-", "-", "\n", "\n", "<", "!", "d", "o", "c", "t", "y", "p", "e", " ", "h", "t", "m", "l", ">", "\n", "<", "h", "t", "m", "l", " ", "l", "a", "n", "g", "=", "\"", "e", "n", "\"", " ", "c", "l", "a", "s", "s", "=", "\"", "d", "a", "r", "k", "\"", ">", "\n", " ", " ", "<", "h", "e", "a", "d", ">", "\n", " ", " ", " ", " ", "<", "m", "e", "t", "a", " ", "c", "h", "a", "r", "s", "e", "t", "=", "\"", "U", "T", "F", "-", "8", "\"", " ", "/", ">", "\n", " ", " ", " ", " ", "<", "t", "i", "t", "l", "e", ">", "{", "c", "o", "n", "f", "i", "g", ".", "m", "e", "t", "a", "d", "a", "t", "a", "?", ".", "n", "a", "m", "e", " ", "|", "|", " ", "'", "H", "o", "m", "e", "'", "}", "<", "/", "t", "i", "t", "l", "e", ">", "\n", " ", " ", "<", "/", "h", "e", "a", "d", ">", "\n", " ", " ", "<", "b", "o", "d", "y", " ", "c", "l", "a", "s", "s", "=", "\"", "b", "g", "-", "b", "a", "c", "k", "g", "r", "o", "u", "n", "d", " ", "t", "e", "x", "t", "-", "f", "o", "r", "e", "g", "r", "o", "u", "n", "d", " ", "f", "o", "n", "t", "-", "s", "a", "n", "s", " ", "a", "n", "t", "i", "a", "l", "i", "a", "s", "e", "d", "\"", ">", "\n", " ", " ", " ", " ">> \o headerRender(navbarContent) \o <<"\n", "\n", " ", " ", " ", " ", "<", "m", "a", "i", "n", " ", "c", "l", "a", "s", "s", "=", "\"", "l", "a", "n", "d", "i", "n", "g", "-", "s", "e", "c", "t", "i", "o", "n", "s", "\"", ">", "\n", " ", " ", " ", " ", " ", " ">> \o Join([i \in DOMAIN sections |-> SectionRender(sections[i], i - 1)], NL) \o <<"\n", " ", " ", " ", " ", "<", "/", "m", "a", "i", "n", ">", "\n", "\n", " ", " ", " ", " ">> \o footerRender(footerContent) \o <<"\n", " ", " ", "<", "/", "b", "o", "d", "y", ">", "\n", "<", "/", "h", "t", "m", "l", ">", "\n">>

\* mutant: the page is written whatever the sections are
generateAstroSectionsLanding_Always(landingData) ==
    Put(NoFiles, <<SrcDir, PagesDir, IndexAstro>>,
        AstroSectionsPage(landingData.sections, landingData.navbarContent,
                          landingData.footerContent))

\* generateAstroSectionsLanding (lines 873-877): written only with a custom section
generateAstroSectionsLanding(landingData) ==
    IF \E i \in DOMAIN landingData.sections : landingData.sections[i].type = SectionCustom
    THEN Put(NoFiles, <<SrcDir, PagesDir, IndexAstro>>,
             AstroSectionsPage(landingData.sections, landingData.navbarContent,
                               landingData.footerContent))
    ELSE NoFiles

\* generateSectionsLandingForFramework (lines 770-787); the manifest is kept as the
\* value JSON.stringify is given
generateSectionsLandingForFramework(fw, landingData) ==
    Both(Put(NoFiles, <<SrcDir, DataDir, LandingSectionsJson>>,
             [type |-> "sections", sections |-> landingData.sections]),
         IF fw.name = "astro" THEN generateAstroSectionsLanding(landingData) ELSE NoFiles)

\* syncSectionsLanding (lines 230-307)
syncSectionsLanding(tree, fw, landingConfig) ==
    LET dir == landingSource(landingConfig)
        footerPath == dir \o << <<"f", "o", "o", "t", "e", "r", ".", "h", "t", "m", "l">> >>
        landingData ==
            [sections      |-> ProcessSections(tree, landingConfig.sectionList),
             navbarContent |-> ResolveRegion(tree, landingConfig.navbar,
                                             FirstNavbarFile(tree, dir), <<>>),
             footerContent |-> ResolveRegion(tree, landingConfig.footer,
                                             {footerPath} \cap DOMAIN tree, <<>>)]
    IN  generateSectionsLandingForFramework(fw, landingData)

\* syncLanding (lines 921-946): the files it writes
syncLanding(tree, fw, landing) ==
    LET type == detectLandingType(landing, <<LandingDir>> \in DOMAIN tree)
    IN  CASE type = "custom"   -> syncCustomLanding(tree, fw, landing)
          [] type = "sections" -> syncSectionsLanding(tree, fw, landing)
          [] OTHER             -> NoFiles

(***************************************************************************)
(* The inputs of the model: source trees, docs-config.json, framework     *)
(* configurations (DEFAULT_FRAMEWORK_CONFIGS of framework-runner.js) and  *)
(* the scaffolded project the sync writes into.                           *)
(***************************************************************************)
MaxFiles == 2

F(path, content) == [path |-> path, content |-> content]

CandidateFiles ==
    { F(<<IndexMd>>, PlainPage),        F(<<Guide, IntroMd>>, TitlePage),
      F(<<RefMdx>>, ApiPage),           F(<<AboutMd>>, LayoutPage),
      F(<<BadMd>>, UnclosedPage),       F(<<Fr, IndexMd>>, TitlePage),
      F(<<Fr, MyPageMd>>, TaggedPage),  F(<<V1, PageMd>>, PlainPage),
      F(<<V1, OldMd>>, LayoutPage),     F(<<V10, PageMd>>, TitlePage),
      F(<<PtBR, IndexMd>>, PlainPage),  F(<<PublicApiMd>>, TitlePage),
      F(<<Guide, Es, PageMd>>, PlainPage), F(<<De>>, PlainPage),
      F(<<LandingDir, IndexHtml>>, <<"<", "h", "1", ">">>), F(<<CssDir, CustomCss>>, <<"a", "{", "}">>) }

\* a commands object: each entry is a [binary, args] pair, Undefined for a missing key
Undefined == <<>>

Commands(dev, build) == [dev |-> dev, build |-> build]

NoCommands == Commands(Undefined, Undefined)

AstroCommands == Commands(<<"astro", <<"dev">> >>, <<"astro", <<"build">> >>)

ViteCommands == Commands(<<"vite", <<"--host">> >>, <<"vite", <<"build">> >>)

NextCommands == Commands(<<"next", <<"dev">> >>, <<"next", <<"build">> >>)

FwAstro ==
    [name |-> "astro", contentDir |-> "src/pages", layoutInjection |-> TRUE,
     layoutPath |-> DefaultLayoutPath, apiLayoutPath |-> DefaultApiLayoutPath,
     commands |-> AstroCommands]

\* astro with a manifest that overrides layoutPath and apiLayoutPath
FwAstroManifest ==
    [name |-> "astro", contentDir |-> "src/pages", layoutInjection |-> TRUE,
     layoutPath |-> <<"l", "/", "D", ".", "a", "s", "t", "r", "o">>, apiLayoutPath |-> <<"l", "/", "A", ".", "a", "s", "t", "r", "o">>,
     commands |-> AstroCommands]

FwReact ==
    [name |-> "react", contentDir |-> "src/content", layoutInjection |-> FALSE,
     layoutPath |-> Null, apiLayoutPath |-> Null, commands |-> ViteCommands]

DocsPath == <<"/", "d", "o", "c", "s">>

DottedDocsPath == <<"/", "a", ".", "b", "/", "d", "o", "c", "s">>

CharsetGlobalCss == <<"@", "c", "h", "a", "r", "s", "e", "t", " ", "\"", "U", "\"", ";", "\n", "@", "t", "a", "i", "l", "w", "i", "n", "d", " ", "b", "a", "s", "e", ";">>

PlainGlobalCss == <<"/", "*", " ", "c", " ", "*", "/", "\n", "b", "o", "d", "y", "{", "}">>

AstroPage == <<"<", "D", "e", "f", "a", "u", "l", "t", "/", ">">>

\* the contentDir of the scaffolded project before the first sync
TemplatePages == MkTree({ F(<<IndexAstro>>, AstroPage), F(<<WelcomeMd>>, TitlePage) })

OnlyIndexAstro == MkTree({ F(<<IndexAstro>>, AstroPage) })

NoStyles == << >>

Styles(globalCss) == [n \in {GlobalCss} |-> globalCss]

ConfigAbsent ==
    [state |-> "absent", i18n |-> NoI18n, versioning |-> NoVersioning, landing |-> NoLanding]

ConfigMalformed == [ConfigAbsent EXCEPT !.state = "malformed"]

Versioning(enabled, versions) ==
    [present |-> TRUE, enabled |-> enabled, hasVersions |-> TRUE, versions |-> versions]

Landing(enabled, type) ==
    [NoLanding EXCEPT !.present = TRUE, !.enabled = enabled, !.type = type]

ConfigLocalesVersions ==
    [state |-> "ok",
     i18n |-> [present |-> TRUE, hasLocales |-> TRUE, locales |-> <<En, PtBR>>],
     versioning |-> Versioning(TRUE, <<V1, V10>>), landing |-> NoLanding]

ConfigVersionIsLocale ==
    [state |-> "ok", i18n |-> NoI18n,
     versioning |-> Versioning(TRUE, <<Fr, V1, De>>), landing |-> Landing("undefined", "undefined")]

ConfigVersioningOff ==
    [state |-> "ok", i18n |-> [present |-> TRUE, hasLocales |-> FALSE, locales |-> <<>>],
     versioning |-> Versioning(FALSE, <<V1>>), landing |-> Landing("false", "undefined")]

ConfigNoVersions ==
    [state |-> "ok", i18n |-> NoI18n,
     versioning |-> Versioning(TRUE, <<>>), landing |-> Landing("undefined", "custom")]

Scenario(cfg, path, fw, pages, styles0) ==
    [cfg |-> cfg, sourcePath |-> path, fw |-> fw, pages |-> pages, styles |-> styles0]

Scenarios ==
    { Scenario(ConfigAbsent, DocsPath, FwAstro, TemplatePages, Styles(CharsetGlobalCss)),
      Scenario(ConfigMalformed, DocsPath, FwReact, EmptyTree, NoStyles),
      Scenario(ConfigLocalesVersions, DocsPath, FwAstro, TemplatePages, Styles(PlainGlobalCss)),
      Scenario(ConfigVersionIsLocale, DocsPath, FwAstroManifest, EmptyTree, NoStyles),
      Scenario(ConfigVersioningOff, DocsPath, FwAstro, OnlyIndexAstro, NoStyles),
      Scenario(ConfigNoVersions, DocsPath, FwAstroManifest, OnlyIndexAstro, Styles(PlainGlobalCss)),
      Scenario(ConfigAbsent, DottedDocsPath, FwAstro, OnlyIndexAstro, NoStyles),
      Scenario(ConfigLocalesVersions, DocsPath, FwReact, EmptyTree, NoStyles) }

\* the docs folder: the chosen files, and docs-config.json unless it is absent
SourceTree(fs, cfg) ==
    MkTree(fs \cup (IF cfg.state = "absent" THEN {} ELSE { F(<<DocsConfigJson>>, <<"{">>) }))

(***************************************************************************)
(* syncDocs as a state machine.  sourcePath, source, docsConfig and       *)
(* frameworkConfig are the call's inputs; target is the tree below        *)
(* projectDir/contentDir and styles is projectDir/src/styles.             *)
(***************************************************************************)
VARIABLES
    sourcePath,        \* the docs directory, as a path string
    source,            \* the tree below sourcePath
    docsConfig,        \* the state of docs-config.json
    frameworkConfig,   \* the FrameworkConfig passed by the caller
    target,            \* the tree below targetPath = projectDir/contentDir
    styles,            \* projectDir/src/styles: file name -> content
    pc,                \* the position of syncDocs
    run,               \* "first" or "second" call on the same inputs
    versionFolders,    \* local of syncDocs
    localeFolders,     \* local of syncDocs
    unit,              \* progress of each version/locale unit of the running Promise.all
    copyLog,           \* the file copies of this call: [pass, folder, path in source]
    landingType,       \* the type detectLandingType returned, "unset" before
    project,           \* the other files of projectDir: path -> content
    results,           \* what the last call of collectMarkdownFiles returned
    slugInput,         \* the relativePath given to the last call of deriveSlug
    slug,              \* what that call returned
    triggerWritable,   \* triggerHMR: whether ensureDir and writeFile of the trigger file succeed
    fallbackState,     \* triggerHMR: each fallback file is "missing", "ok" or "locked" (utimes fails)
    fileIndex,         \* triggerHMR: the position of the for loop in fallbackFiles
    touched,           \* triggerHMR: the fallback files whose mtime was updated, in order
    syncTimeout,       \* devCommand: the timers of debouncedSync that are armed (0 or 1)
    isSyncing,         \* devCommand
    events,            \* the watcher events delivered so far
    started,           \* the watcher-triggered syncs started so far
    settled,           \* the watcher-triggered syncs settled so far
    burst,             \* the events since the last timer firing that armed the timer
    unsynced,          \* an event was delivered and no sync has started since
    firstOutput        \* <<target, styles>> when the first call returned

vars ==
    <<sourcePath, source, docsConfig, frameworkConfig, target, styles, pc, run,
      versionFolders, localeFolders, unit, copyLog, landingType, project, results,
      firstOutput, slugInput, slug,
      triggerWritable, fallbackState, fileIndex, touched,
      syncTimeout, isSyncing, events, started, settled, burst, unsynced>>

inputs == <<sourcePath, source, docsConfig, frameworkConfig>>

\* the variables of deriveSlug, of triggerHMR and of the dev command's watcher
slugVars == <<slugInput, slug>>

hmrVars == <<triggerWritable, fallbackState, fileIndex, touched>>

devVars == <<syncTimeout, isSyncing, events, started, settled, burst, unsynced>>

\* no call of deriveSlug so far
NoSlug == slugInput = <<>> /\ slug = <<>>

\* triggerHMR not entered
NoHmr == triggerWritable = TRUE /\ fallbackState = <<>> /\ fileIndex = 0 /\ touched = <<>>

\* no watcher set up
NoWatcher ==
    /\ syncTimeout = 0 /\ isSyncing = FALSE
    /\ events = 0 /\ started = 0 /\ settled = 0 /\ burst = 0 /\ unsynced = FALSE

NoUnits == << >>

Init ==
    \E fs \in { S \in SUBSET CandidateFiles : Cardinality(S) <= MaxFiles }, sc \in Scenarios :
        /\ sourcePath = sc.sourcePath
        /\ source = SourceTree(fs, sc.cfg)
        /\ docsConfig = sc.cfg
        /\ frameworkConfig = sc.fw
        /\ target = sc.pages
        /\ styles = sc.styles
        /\ pc = "start"
        /\ run = "first"
        /\ versionFolders = {}
        /\ localeFolders = {}
        /\ unit = NoUnits
        /\ copyLog = {}
        /\ landingType = "unset"
        /\ project = NoFiles
        /\ results = {}
        /\ NoSlug /\ NoHmr /\ NoWatcher
        /\ firstOutput = <<sc.pages, sc.styles>>

shouldInjectLayout == frameworkConfig.layoutInjection # FALSE

excludeFolders == localeFolders \cup versionFolders

\* the filter of the root copy (lines 149-170)
RootFilter(src) ==
    LET relativePath == Relative(sourcePath, src)
        firstSegment == Split(relativePath, sep)[1]
    IN  IF \E folder \in SPECIAL_FOLDERS : StartsWith(relativePath, folder) THEN FALSE
        ELSE IF firstSegment \in excludeFolders THEN FALSE
        ELSE IF relativePath = DocsConfigJson \/ relativePath = VercelJson THEN FALSE
        ELSE EndsWith(src, ExtMd) \/ EndsWith(src, ExtMdx) \/ ~Includes(src, <<".">>)

\* the filter of the version and locale copies (lines 181-184, 201-204)
MarkdownFilter(src) == EndsWith(src, ExtMd) \/ EndsWith(src, ExtMdx) \/ ~Includes(src, <<".">>)

\* the entries of the docs folder each filter admits, asked with their full path
RootPassing == { p \in DOMAIN source : RootFilter(JoinPath(sourcePath, p)) }

MarkdownPassing == { p \in DOMAIN source : MarkdownFilter(JoinPath(sourcePath, p)) }

Logged(pass, folder, files) == { [pass |-> pass, folder |-> folder, path |-> p] : p \in files }

\* lines 124-144: ensureDir, read the configuration, detect the folders
Detect ==
    /\ pc = "start"
    /\ target' = EnsureDir(target, <<>>)
    /\ versionFolders' = detectVersionFolders(source, getVersioningConfig(docsConfig))
    /\ localeFolders' =
          detectLocaleFolders(source, ConfiguredLocales(getI18nConfig(docsConfig)))
    /\ copyLog' = {}
    /\ pc' = "rootCopy"
    /\ UNCHANGED <<inputs, styles, run, unit, landingType, firstOutput, project, results, slugVars, hmrVars, devVars>>

\* lines 147-171: the root copy
RootCopy ==
    /\ pc = "rootCopy"
    /\ target' = CopyTree(source, <<>>, target, <<>>, RootPassing)
    /\ copyLog' = copyLog \cup Logged("root", <<>>, CopiedFiles(source, <<>>, RootPassing))
    /\ unit' = [v \in versionFolders |-> "copy"]
    /\ pc' = "versions"
    /\ UNCHANGED <<inputs, styles, run, versionFolders, localeFolders, landingType, firstOutput, project, results, slugVars, hmrVars, devVars>>

\* lines 175-185 (a version unit) and 195-205 (a locale unit): ensureDir and copy
UnitCopy(group, folder) ==
    /\ pc = group
    /\ folder \in DOMAIN unit /\ unit[folder] = "copy"
    /\ target' = CopyTree(source, <<folder>>, EnsureDir(target, <<folder>>), <<folder>>,
                          MarkdownPassing)
    /\ copyLog' = copyLog \cup
          Logged(group, folder,
                 CopiedFiles(source, <<folder>>, MarkdownPassing))
    /\ unit' = [unit EXCEPT ![folder] = IF shouldInjectLayout THEN "inject" ELSE "done"]
    /\ UNCHANGED <<inputs, styles, pc, run, versionFolders, localeFolders, landingType, firstOutput, project, results, slugVars, hmrVars, devVars>>

\* lines 188-190: injectLayoutIntoMarkdown(versionTargetPath, targetPath, null, [], version, fc)
VersionInject(version) ==
    /\ pc = "versions"
    /\ version \in DOMAIN unit /\ unit[version] = "inject"
    /\ target' = injectLayoutIntoMarkdown(target, <<version>>, Null, {}, version, frameworkConfig)
    /\ unit' = [unit EXCEPT ![version] = "done"]
    /\ UNCHANGED <<inputs, styles, pc, run, versionFolders, localeFolders, copyLog, landingType,
                   firstOutput, project, results, slugVars, hmrVars, devVars>>

\* lines 208-210: injectLayoutIntoMarkdown(localeTargetPath, targetPath, locale, [], null, fc)
LocaleInject(locale) ==
    /\ pc = "locales"
    /\ locale \in DOMAIN unit /\ unit[locale] = "inject"
    /\ target' = injectLayoutIntoMarkdown(target, <<locale>>, locale, {}, Null, frameworkConfig)
    /\ unit' = [unit EXCEPT ![locale] = "done"]
    /\ UNCHANGED <<inputs, styles, pc, run, versionFolders, localeFolders, copyLog, landingType,
                   firstOutput, project, results, slugVars, hmrVars, devVars>>

AllUnitsDone == \A f \in DOMAIN unit : unit[f] = "done"

\* line 174: await Promise.all(versionFolders.map(...)) resolves
VersionsJoined ==
    /\ pc = "versions" /\ AllUnitsDone
    /\ unit' = [l \in localeFolders |-> "copy"]
    /\ pc' = "locales"
    /\ UNCHANGED <<inputs, target, styles, run, versionFolders, localeFolders, copyLog,
                   landingType, firstOutput, project, results, slugVars, hmrVars, devVars>>

\* line 194: await Promise.all(localeFolders.map(...)) resolves
LocalesJoined ==
    /\ pc = "locales" /\ AllUnitsDone
    /\ unit' = NoUnits
    /\ pc' = "rootInject"
    /\ UNCHANGED <<inputs, target, styles, run, versionFolders, localeFolders, copyLog,
                   landingType, firstOutput, project, results, slugVars, hmrVars, devVars>>

\* lines 214-216: the injection into the root-level pages
RootInject ==
    /\ pc = "rootInject"
    /\ target' = IF shouldInjectLayout
                 THEN injectLayoutIntoMarkdown(target, <<>>, Null, excludeFolders, Null,
                                               frameworkConfig)
                 ELSE target
    /\ pc' = "index"
    /\ UNCHANGED <<inputs, styles, run, versionFolders, localeFolders, unit, copyLog, landingType,
                   firstOutput, project, results, slugVars, hmrVars, devVars>>

Remove(tree, p) == [q \in { r \in DOMAIN tree : ~IsPrefix(p, r) } |-> tree[q]]

\* mutant: index.astro is removed whether or not a user index page exists
RemoveDefaultIndex_Always ==
    /\ pc = "index"
    /\ target' = IF <<IndexAstro>> \in DOMAIN target
                 THEN Remove(target, <<IndexAstro>>)
                 ELSE target
    /\ pc' = "assets"
    /\ UNCHANGED <<inputs, styles, run, versionFolders, localeFolders, unit, copyLog,
                   landingType, firstOutput, project, results, slugVars, hmrVars, devVars>>

\* lines 219-228: a user index page removes the template's index.astro
RemoveDefaultIndex ==
    /\ pc = "index"
    /\ LET hasUserIndex == \E file \in {IndexMd, IndexMdx} : <<file>> \in DOMAIN target
       IN  target' = IF hasUserIndex /\ <<IndexAstro>> \in DOMAIN target
                     THEN Remove(target, <<IndexAstro>>)
                     ELSE target
    /\ pc' = "assets"
    /\ UNCHANGED <<inputs, styles, run, versionFolders, localeFolders, unit, copyLog,
                   landingType, firstOutput, project, results, slugVars, hmrVars, devVars>>

\* line 231: syncUserAssets
SyncUserAssets ==
    /\ pc = "assets"
    /\ styles' = SyncCss(source, styles)
    /\ pc' = "landing"
    /\ UNCHANGED <<inputs, target, run, versionFolders, localeFolders, unit, copyLog,
                   landingType, firstOutput, project, results, slugVars, hmrVars, devVars>>

\* frameworkConfig.contentDir as a path below projectDir
ContentDirPath(fw) ==
    CASE fw.contentDir = "src/pages"   -> <<SrcDir, PagesDir>>
      [] fw.contentDir = "src/content" -> <<SrcDir, <<"c", "o", "n", "t", "e", "n", "t">> >>
      [] fw.contentDir = "content"     -> << <<"c", "o", "n", "t", "e", "n", "t">> >>

\* the writes that land below contentDir, applied to its tree
WriteContent(tree, writes, fw) ==
    LET cd   == ContentDirPath(fw)
        mine == { p \in DOMAIN writes : IsPrefix(cd, p) }
        at(q) == cd \o q
        new  == { Rebase(p, cd, <<>>) : p \in mine }
        dirs == UNION { { SubSeq(q, 1, k) : k \in 0 .. (Len(q) - 1) } : q \in new }
    IN  [q \in DOMAIN tree \cup new \cup dirs |->
            IF q \in new THEN FileNode(writes[at(q)])
            ELSE IF q \in DOMAIN tree THEN tree[q]
            ELSE DirNode]

\* the writes that land in src/styles
WriteStyles(css, writes) ==
    LET mine == { p \in DOMAIN writes : Len(p) = 3 /\ SubSeq(p, 1, 2) = <<SrcDir, StylesDir>> }
    IN  [n \in DOMAIN css \cup { p[3] : p \in mine } |->
            IF <<SrcDir, StylesDir, n>> \in mine THEN writes[<<SrcDir, StylesDir, n>>]
            ELSE css[n]]

\* the writes that land elsewhere in projectDir
WriteProject(files, writes, fw) ==
    LET mine == { p \in DOMAIN writes :
                    /\ ~IsPrefix(ContentDirPath(fw), p)
                    /\ ~(Len(p) = 3 /\ SubSeq(p, 1, 2) = <<SrcDir, StylesDir>>) }
    IN  [p \in DOMAIN files \cup mine |-> IF p \in mine THEN writes[p] ELSE files[p]]

\* lines 234-237: syncLanding, called when docsConfig.landing is set
SyncLanding ==
    /\ pc = "landing"
    /\ docsConfig.state # "null"
    /\ LET landing == getLanding(docsConfig)
           writes  == IF landing.present
                      THEN syncLanding(source, frameworkConfig, landing)
                      ELSE NoFiles
       IN  /\ landingType' =
                 IF landing.present
                 THEN detectLandingType(landing, <<LandingDir>> \in DOMAIN source)
                 ELSE landingType
           /\ target' = WriteContent(target, writes, frameworkConfig)
           /\ styles' = WriteStyles(styles, writes)
           /\ project' = WriteProject(project, writes, frameworkConfig)
    /\ pc' = "hmr"
    /\ UNCHANGED <<inputs, run, versionFolders, localeFolders, unit, copyLog, firstOutput, results, slugVars, hmrVars, devVars>>

HmrTriggerFile == <<".", "l", "i", "t", "o", "-", "h", "m", "r", "-", "t", "r", "i", "g", "g", "e", "r", ".", "j", "s">>

\* the trigger file's content: the timestamp differs from call to call
TriggerContent(call) == <<"LITO_CONTENT_VERSION", call>>

\* mutant: the trigger file is written for every framework
TriggerHMR_AnyFramework ==
    /\ pc = "hmr"
    /\ triggerWritable
    /\ project' = Put(project, <<SrcDir, HmrTriggerFile>>, TriggerContent(run))
    /\ pc' = "done"
    /\ UNCHANGED <<inputs, target, styles, run, versionFolders, localeFolders, unit, copyLog,
                   landingType, firstOutput, results, slugVars, hmrVars, devVars>>

\* lines 241-243 and triggerHMR (lines 440-465): the trigger file is written, for a
\* framework other than astro, then syncDocs returns
TriggerHMR ==
    /\ pc = "hmr"
    /\ frameworkConfig.name # "astro"
    /\ triggerWritable
    /\ project' = Put(project, <<SrcDir, HmrTriggerFile>>, TriggerContent(run))
    /\ pc' = "done"
    /\ UNCHANGED <<inputs, target, styles, run, versionFolders, localeFolders, unit, copyLog,
                   landingType, firstOutput, results, slugVars, hmrVars, devVars>>

\* lines 241-244: no HMR trigger for astro; syncDocs returns
Return ==
    /\ pc = "hmr"
    /\ frameworkConfig.name = "astro"
    /\ pc' = "done"
    /\ UNCHANGED <<inputs, target, styles, run, versionFolders, localeFolders, unit, copyLog,
                   landingType, firstOutput, project, results, slugVars, hmrVars, devVars>>

\* the caller runs syncDocs again on the same source tree and project
SyncAgain ==
    /\ pc = "done" /\ run = "first"
    /\ firstOutput' = <<target, styles>>
    /\ run' = "second"
    /\ pc' = "start"
    /\ UNCHANGED <<inputs, target, styles, versionFolders, localeFolders, unit, copyLog,
                   landingType, project, results, slugVars, hmrVars, devVars>>

Next ==
    \/ Detect
    \/ RootCopy
    \/ \E v \in versionFolders : UnitCopy("versions", v)
    \/ \E v \in versionFolders : VersionInject(v)
    \/ VersionsJoined
    \/ \E l \in localeFolders : UnitCopy("locales", l)
    \/ \E l \in localeFolders : LocaleInject(l)
    \/ LocalesJoined
    \/ RootInject
    \/ RemoveDefaultIndex
    \/ SyncUserAssets
    \/ SyncLanding
    \/ TriggerHMR
    \/ Return
    \/ SyncAgain

Spec == Init /\ [][Next]_vars
(***************************************************************************)
(* Vocabulary of the properties.                                          *)
(***************************************************************************)
KeyLayout == <<"l", "a", "y", "o", "u", "t">>

KeyLang == <<"l", "a", "n", "g">>

KeyApi == <<"a", "p", "i">>

KeyDocVersion == <<"d", "o", "c", "V", "e", "r", "s", "i", "o", "n">>

MdFiles(tree) == { p \in DOMAIN tree : tree[p].kind = "file" /\ IsMarkdownName(p[Len(p)]) }

\* the number of lines of content that start with kw
LinesStarting(content, kw) ==
    LET lines == Split(content, "\n")
    IN  Cardinality({ i \in 1 .. Len(lines) : StartsWith(lines[i], kw) })

Data(content) == parseFrontmatter(content).data

HasKey(content, key) == key \in DOMAIN Data(content)

\* a step of the behaviour that is one call of injectLayoutIntoMarkdown
InjectStep ==
    \/ pc = "rootInject" /\ pc' = "index" /\ shouldInjectLayout
    \/ \E f \in DOMAIN unit :
          unit[f] = "inject" /\ f \in DOMAIN unit' /\ unit'[f] = "done"

CopiedBy(p) == { r \in copyLog : r.path = p }

C2_CopiedByExactlyOnePass ==
    pc = "done" =>
        \A p \in MdFiles(source) :
            /\ Cardinality(CopiedBy(p)) = 1
            /\ (Len(p) > 1 /\ p[1] \in excludeFolders) =>
                  \A r \in CopiedBy(p) : r.pass # "root" /\ r.folder = p[1]

(***************************************************************************)
(* C3: an injection step never changes the value of a layout: key a page  *)
(* already has, and it adds a lang: or docVersion: line only to a page    *)
(* whose frontmatter has no such key.                                     *)
(***************************************************************************)
C3_LayoutNeverOverwritten ==
    [][InjectStep =>
        \A p \in MdFiles(target) :
            LET b == target[p].content
                a == target'[p].content
            IN  /\ HasKey(b, KeyLayout) =>
                      HasKey(a, KeyLayout) /\ Data(a)[KeyLayout] = Data(b)[KeyLayout]
                /\ LinesStarting(a, KwLang) > LinesStarting(b, KwLang) => ~HasKey(b, KeyLang)
                /\ LinesStarting(a, KwDocVersion) > LinesStarting(b, KwDocVersion) =>
                      ~HasKey(b, KeyDocVersion)]_vars

\* the version pass has tagged a page that brought its own layout
C3_Witness ==
    /\ V1 \in DOMAIN unit /\ unit[V1] = "done" /\ pc = "versions"
    /\ <<V1, OldMd>> \in DOMAIN target
    /\ HasKey(target[<<V1, OldMd>>].content, KeyDocVersion)
    /\ Data(target[<<V1, OldMd>>].content)[KeyLayout] = Data(LayoutPage)[KeyLayout]

(***************************************************************************)
(* C4 (as claimed): with layout injection enabled, every synced page      *)
(* whose frontmatter has no layout: key ends with exactly one layout:     *)
(* line, whose value is the layout path (the API layout path for a page   *)
(* with an api: key) behind one '../' per directory level of the page     *)
(* plus one.                                                              *)
(***************************************************************************)
C4_LayoutAddedFromDepth ==
    (pc = "done" /\ shouldInjectLayout) =>
        \A r \in copyLog :
            LET p == r.path
            IN  (IsMarkdownName(p[Len(p)]) /\ p \in DOMAIN target
                   /\ ~HasKey(source[p].content, KeyLayout)) =>
                    /\ LinesStarting(target[p].content, KwLayout) = 1
                    /\ HasKey(target[p].content, KeyLayout)
                    /\ Data(target[p].content)[KeyLayout] =
                          Repeat(UpDir, Len(p)) \o
                            (IF HasKey(source[p].content, KeyApi)
                             THEN frameworkConfig.apiLayoutPath
                             ELSE frameworkConfig.layoutPath)

(***************************************************************************)
(* detectLandingType on its own: every landing configuration, with and    *)
(* without a _landing folder.                                             *)
(***************************************************************************)
LandingConfigs ==
    {NoLanding} \cup
    [present : {TRUE}, enabled : {"undefined", "true", "false"},
     type : {"undefined", "custom", "sections", "none", "config"},
     sections : BOOLEAN, hero : BOOLEAN, features : BOOLEAN,
     source : {Null}, navbar : {NoRegion}, footer : {NoRegion}, sectionList : {<<>>}]

InitLanding ==
    \E landing \in LandingConfigs, folder \in BOOLEAN :
        /\ sourcePath = DocsPath
        /\ docsConfig = [ConfigAbsent EXCEPT !.state = "ok", !.landing = landing]
        /\ source = SourceTree(IF folder THEN { F(<<LandingDir, IndexHtml>>, <<"h">>) } ELSE {},
                               docsConfig)
        /\ frameworkConfig = FwAstro
        /\ target = EmptyTree
        /\ styles = NoStyles
        /\ pc = "detectLanding"
        /\ run = "first"
        /\ versionFolders = {}
        /\ localeFolders = {}
        /\ unit = NoUnits
        /\ copyLog = {}
        /\ landingType = "unset"
        /\ project = NoFiles
        /\ results = {}
        /\ NoSlug /\ NoHmr /\ NoWatcher
        /\ firstOutput = <<EmptyTree, NoStyles>>

\* a call detectLandingType(sourcePath, docsConfig)
DetectLandingCall ==
    /\ pc = "detectLanding"
    /\ landingType' = detectLandingType(docsConfig.landing, <<LandingDir>> \in DOMAIN source)
    /\ pc' = "detected"
    /\ UNCHANGED <<inputs, target, styles, run, versionFolders, localeFolders, unit, copyLog,
                   firstOutput, project, results, slugVars, hmrVars, devVars>>

NextLanding == DetectLandingCall

SpecLanding == InitLanding /\ [][NextLanding]_vars

(***************************************************************************)
(* C5: detectLandingType returns the one type its priority list gives:    *)
(* enabled === false gives none; else type custom, or a _landing folder   *)
(* with no type, gives custom; else type sections with sections gives     *)
(* sections; else type none gives none; else hero or features gives       *)
(* config; otherwise default.                                             *)
(***************************************************************************)
C5_LandingTypePriority ==
    pc = "detected" =>
        LET c      == docsConfig.landing
            folder == <<LandingDir>> \in DOMAIN source
            r1 == c.enabled = "false"
            r2 == c.type = "custom" \/ (folder /\ c.type = "undefined")
            r3 == c.type = "sections" /\ c.sections
            r4 == c.type = "none"
            r5 == c.hero \/ c.features
        IN  /\ r1 => landingType = "none"
            /\ (~r1 /\ r2) => landingType = "custom"
            /\ (~r1 /\ ~r2 /\ r3) => landingType = "sections"
            /\ (~r1 /\ ~r2 /\ ~r3 /\ r4) => landingType = "none"
            /\ (~r1 /\ ~r2 /\ ~r3 /\ ~r4 /\ r5) => landingType = "config"
            /\ (~r1 /\ ~r2 /\ ~r3 /\ ~r4 /\ ~r5) => landingType = "default"

\* {enabled: false} with a _landing folder and hero set has been classified none
C5_Witness ==
    /\ pc = "detected" /\ landingType = "none"
    /\ docsConfig.landing.enabled = "false" /\ docsConfig.landing.hero
    /\ <<LandingDir>> \in DOMAIN source

(***************************************************************************)
(* C6 (as claimed): the detected locale folders are exactly the top-level *)
(* directories whose lowercased name is a known locale or that            *)
(* i18n.locales lists.                                                    *)
(***************************************************************************)
ListedLocales ==
    IF docsConfig.state = "ok" /\ docsConfig.i18n.present /\ docsConfig.i18n.hasLocales
    THEN Range(docsConfig.i18n.locales)
    ELSE {En}

C6_LocaleFoldersExact ==
    pc # "start" =>
        localeFolders =
            { q[1] : q \in { d \in TopLevel(source) :
                               /\ source[d].kind = "dir"
                               /\ \/ ToLowerCase(d[1]) \in KNOWN_LOCALES
                                  \/ d[1] \in ListedLocales } }

(***************************************************************************)
(* C7: the detected version folders are exactly the top-level directories *)
(* named by the path of a configured version, and there are none unless   *)
(* versioning.enabled is true and versioning.versions is non-empty.       *)
(***************************************************************************)
C7_VersionFoldersExact ==
    pc # "start" =>
        versionFolders =
            { q[1] : q \in { d \in TopLevel(source) :
                               /\ source[d].kind = "dir"
                               /\ docsConfig.state = "ok"
                               /\ docsConfig.versioning.present
                               /\ docsConfig.versioning.enabled
                               /\ docsConfig.versioning.versions # <<>>
                               /\ \E i \in DOMAIN docsConfig.versioning.versions :
                                     docsConfig.versioning.versions[i] = d[1] } }

\* v1 has been detected as a version folder
C7_Witness == pc = "rootCopy" /\ V1 \in versionFolders /\ IsDir(source, <<V1>>)

(***************************************************************************)
(* C8 (as claimed): after a call with layout injection, every page under  *)
(* a detected version folder V is in contentDir at the same relative      *)
(* path, carries a docVersion: key (V, unless the page brought its own),  *)
(* and was not copied by the root copy.                                   *)
(***************************************************************************)
C8_VersionPagesTagged ==
    (pc = "done" /\ shouldInjectLayout) =>
        \A p \in MdFiles(source) :
            (Len(p) > 1 /\ p[1] \in versionFolders) =>
                /\ IsFile(target, p)
                /\ HasKey(target[p].content, KeyDocVersion)
                /\ ~HasKey(source[p].content, KeyDocVersion) =>
                      Data(target[p].content)[KeyDocVersion] = p[1]
                /\ \A r \in CopiedBy(p) : r.pass # "root"

(***************************************************************************)
(* C9 (as claimed): after a call with layout injection, every page under  *)
(* a detected locale folder L is in contentDir at the same relative path  *)
(* and carries a lang: key (L, unless the page brought its own), and a    *)
(* page of the root pass has no more lang: lines than its source.         *)
(***************************************************************************)
C9_LocalePagesTagged ==
    (pc = "done" /\ shouldInjectLayout) =>
        \A p \in MdFiles(source) :
            /\ (Len(p) > 1 /\ p[1] \in localeFolders) =>
                  /\ IsFile(target, p)
                  /\ HasKey(target[p].content, KeyLang)
                  /\ ~HasKey(source[p].content, KeyLang) =>
                        Data(target[p].content)[KeyLang] = p[1]
            /\ (\E r \in CopiedBy(p) : r.pass = "root") =>
                  LinesStarting(target[p].content, KwLang)
                     = LinesStarting(source[p].content, KwLang)

(***************************************************************************)
(* C10 (as claimed): once the root copy has run, contentDir holds, at the *)
(* same relative path, every directory and every .md/.mdx file of the     *)
(* source tree that is not under a fixed non-content folder, not under a  *)
(* detected locale or version folder, and not docs-config.json or         *)
(* vercel.json.                                                           *)
(***************************************************************************)
C10_RootCopyComplete ==
    pc \notin {"start", "rootCopy"} =>
        \A p \in DOMAIN source :
            ( /\ p # <<>>
              /\ source[p].kind = "dir" \/ IsMarkdownName(p[Len(p)])
              /\ p[1] \notin SPECIAL_FOLDERS
              /\ p[1] \notin excludeFolders
              /\ p \notin {<<DocsConfigJson>>, <<VercelJson>>} ) =>
                /\ p \in DOMAIN target
                /\ target[p].kind = source[p].kind

(***************************************************************************)
(* The landing step of syncDocs on its own: docs folders that hold a      *)
(* landing folder, region files and section files but no page, so that    *)
(* the steps before line 233 leave the scaffolded project as it was.      *)
(***************************************************************************)
NavbarHtml == <<"n", "a", "v", "b", "a", "r", ".", "h", "t", "m", "l">>

FooterHtml == <<"f", "o", "o", "t", "e", "r", ".", "h", "t", "m", "l">>

NavCfgHtml == <<"n", "a", "v", "-", "c", "f", "g", ".", "h", "t", "m", "l">>

FootCfgHtml == <<"f", "o", "o", "t", "-", "c", "f", "g", ".", "h", "t", "m", "l">>

MissingHtml == <<"m", "i", "s", "s", "i", "n", "g", ".", "h", "t", "m", "l">>

SecHtml == <<"s", "e", "c", ".", "h", "t", "m", "l">>

StyleCss == <<"s", "t", "y", "l", "e", ".", "c", "s", "s">>

AppJs == <<"a", "p", "p", ".", "j", "s">>

LogoPng == <<"l", "o", "g", "o", ".", "p", "n", "g">>

Marker == <<"<", "h", "1", ">", "H", "i", "<", "/", "h", "1", ">">>

FragmentHtml == Marker

FullDocHtml == <<"<", "h", "t", "m", "l", " ", "l", "a", "n", "g", "=", "\"", "e", "n", "\"", ">", "<", "h", "e", "a", "d", ">", "<", "t", "i", "t", "l", "e", ">", "T", "<", "/", "t", "i", "t", "l", "e", ">", "<", "/", "h", "e", "a", "d", ">", "<", "b", "o", "d", "y", " ", "c", "l", "a", "s", "s", "=", "\"", "b", "\"", ">">> \o Marker \o <<"<", "/", "b", "o", "d", "y", ">", "<", "/", "h", "t", "m", "l", ">">>

BareDocHtml == <<"<", "!", "d", "o", "c", "t", "y", "p", "e", " ", "h", "t", "m", "l", ">", "\n">> \o Marker

ScriptHtml == Marker \o <<"<", "s", "c", "r", "i", "p", "t", ">", "g", "o", "(", ")", "<", "/", "s", "c", "r", "i", "p", "t", ">">>

DirNav == <<"<", "n", "a", "v", ">", "d", "i", "r", "<", "/", "n", "a", "v", ">">>

CfgNav == <<"<", "n", "a", "v", ">", "c", "f", "g", "<", "/", "n", "a", "v", ">">>

DirFoot == <<"<", "p", ">", "d", "i", "r", "<", "/", "p", ">">>

CfgFoot == <<"<", "p", ">", "c", "f", "g", "<", "/", "p", ">">>

SecContent == <<"<", "b", ">", "S", "<", "/", "b", ">">>

Hidden == [hidden |-> TRUE, html |-> Null]

Declared(path) == [hidden |-> FALSE, html |-> path]

FwNext ==
    [name |-> "next", contentDir |-> "content", layoutInjection |-> FALSE,
     layoutPath |-> Null, apiLayoutPath |-> Null, commands |-> NextCommands]

FwVue ==
    [name |-> "vue", contentDir |-> "src/content", layoutInjection |-> FALSE,
     layoutPath |-> Null, apiLayoutPath |-> Null, commands |-> ViteCommands]

\* a manifest that declares the framework nuxt: mergeFrameworkConfig's fallback config
FwNuxt ==
    [name |-> "nuxt", contentDir |-> "src/content", layoutInjection |-> FALSE,
     layoutPath |-> Null, apiLayoutPath |-> Null, commands |-> NoCommands]

\* the files of the landing folder beside index.html, and the files config paths name
RegionFiles ==
    { F(<<LandingDir, NavbarHtml>>, DirNav), F(<<LandingDir, FooterHtml>>, DirFoot) }

ConfigPathFiles == { F(<<NavCfgHtml>>, CfgNav), F(<<FootCfgHtml>>, CfgFoot) }

AssetFiles ==
    { F(<<LandingDir, StyleCss>>, <<"h", "1", "{", "}">>), F(<<LandingDir, AppJs>>, <<"g", "o", "(", ")">>),
      F(<<LandingDir, LogoPng>>, <<"P", "N", "G">>) }

IndexVariants ==
    { {} } \cup { { F(<<LandingDir, IndexHtml>>, c) } :
                    c \in {FragmentHtml, FullDocHtml, BareDocHtml, ScriptHtml} }

Regions == { NoRegion, Hidden, Declared(<<NavCfgHtml>>), Declared(<<MissingHtml>>) }

FooterRegions == { NoRegion, Hidden, Declared(<<FootCfgHtml>>) }

CustomLandingConfigs ==
    {NoLanding} \cup
    { [NoLanding EXCEPT !.present = TRUE, !.enabled = e, !.type = t, !.navbar = n, !.footer = f] :
        e \in {"undefined", "false"}, t \in {"undefined", "custom"},
        n \in Regions, f \in FooterRegions }

SectionLists ==
    { <<>>,
      << Section(<<"h", "e", "r", "o">>, Null) >>,
      << Section(SectionCustom, <<SecHtml>>) >>,
      << Section(SectionCustom, <<MissingHtml>>), Section(<<"h", "e", "r", "o">>, Null) >>,
      << Section(<<"f", "e", "a", "t", "u", "r", "e", "s">>, Null), Section(SectionCustom, <<SecHtml>>) >> }

SectionsLandingConfigs ==
    { [NoLanding EXCEPT !.present = TRUE, !.type = "sections", !.sections = TRUE,
                        !.sectionList = l, !.navbar = n] :
        l \in SectionLists, n \in Regions }

\* the cases: [files, landing, fw]
LandingCases ==
    [files : { i \cup r \cup c \cup a : i \in IndexVariants, r \in SUBSET RegionFiles,
                                       c \in {{}, ConfigPathFiles}, a \in {{}, AssetFiles} },
     landing : CustomLandingConfigs, fw : {FwAstro}]
    \cup
    [files : { i \cup a : i \in { v \in IndexVariants : \A f \in v : f.content # BareDocHtml },
                         a \in {{}, AssetFiles} },
     landing : { NoLanding, Landing("undefined", "undefined"), Landing("undefined", "custom") },
     fw : {FwReact, FwNext, FwVue, FwNuxt}]
    \cup
    [files : { s \cup r \cup c : s \in SUBSET { F(<<SecHtml>>, SecContent) },
                                r \in SUBSET { F(<<LandingDir, NavbarHtml>>, DirNav) },
                                c \in {{}, ConfigPathFiles} },
     landing : SectionsLandingConfigs, fw : {FwAstro, FwReact, FwNext, FwVue, FwNuxt}]

InitLandingSync ==
    \E case \in LandingCases :
        /\ sourcePath = DocsPath
        /\ docsConfig = [ConfigAbsent EXCEPT !.state = "ok", !.landing = case.landing]
        /\ source = SourceTree(case.files, docsConfig)
        /\ frameworkConfig = case.fw
        /\ target = IF case.fw.name = "astro" THEN OnlyIndexAstro ELSE EmptyTree
        /\ styles = Styles(PlainGlobalCss)
        /\ pc = "landing"
        /\ run = "first"
        /\ versionFolders = {}
        /\ localeFolders = {}
        /\ unit = NoUnits
        /\ copyLog = {}
        /\ landingType = "unset"
        /\ project = NoFiles
        /\ results = {}
        /\ NoSlug /\ NoHmr /\ NoWatcher
        /\ firstOutput = <<target, styles>>

NextLandingSync == SyncLanding \/ TriggerHMR \/ Return

SpecLandingSync == InitLandingSync /\ [][NextLandingSync]_vars

\* the index.astro the landing step has generated, when it has
LandingPageWritten ==
    /\ pc \in {"hmr", "done"}
    /\ <<IndexAstro>> \in DOMAIN target
    /\ target[<<IndexAstro>>].content # AstroPage

LandingPage == target[<<IndexAstro>>].content

(***************************************************************************)
(* C11 (as claimed): on a generated custom or sections landing page the   *)
(* navbar region is empty when landing.navbar is false; else it holds the *)
(* file of the config-declared path landing.navbar.html when that file    *)
(* exists, in preference to a navbar file found in the landing folder;    *)
(* else the file found; else the template's Header component.  Likewise   *)
(* the footer.                                                            *)
(***************************************************************************)
C11_RegionPriority ==
    LandingPageWritten =>
        LET landing == docsConfig.landing
            region(r, sniffedPath, custom, default) ==
                LET declared == Truthy(r.html) /\ r.html \in DOMAIN source
                    sniffed  == sniffedPath \in DOMAIN source
                IN  IF r.hidden
                    THEN ~Includes(LandingPage, custom) /\ ~Includes(LandingPage, default)
                    ELSE IF declared
                    THEN Includes(LandingPage, custom \o <<"\n", " ", " ", " ", " ", " ", " ">> \o source[r.html].content)
                    ELSE IF sniffed
                    THEN Includes(LandingPage, custom \o <<"\n", " ", " ", " ", " ", " ", " ">> \o source[sniffedPath].content)
                    ELSE Includes(LandingPage, default)
        IN  /\ region(landing.navbar, <<LandingDir, NavbarHtml>>,
                      <<"<", "h", "e", "a", "d", "e", "r", " ", "c", "l", "a", "s", "s", "=", "\"", "l", "a", "n", "d", "i", "n", "g", "-", "c", "u", "s", "t", "o", "m", "-", "n", "a", "v", "b", "a", "r", "\"", ">">>, <<"<", "H", "e", "a", "d", "e", "r", " ", "/", ">">>)
            /\ (landingType = "custom" =>
                   region(landing.footer, <<LandingDir, FooterHtml>>,
                          <<"<", "f", "o", "o", "t", "e", "r", " ", "c", "l", "a", "s", "s", "=", "\"", "l", "a", "n", "d", "i", "n", "g", "-", "c", "u", "s", "t", "o", "m", "-", "f", "o", "o", "t", "e", "r", "\"", ">">>, <<"<", "F", "o", "o", "t", "e", "r", " ", "/", ">">>))

(***************************************************************************)
(* detectFramework of framework-runner.js.  The files at the root of      *)
(* projectDir are in project; a JSON file's content is what readJson      *)
(* gives: json = "malformed" when it throws.                              *)
(***************************************************************************)
LitoManifestJson == <<"l", "i", "t", "o", "-", "m", "a", "n", "i", "f", "e", "s", "t", ".", "j", "s", "o", "n">>

TemplateManifestJson == <<"t", "e", "m", "p", "l", "a", "t", "e", "-", "m", "a", "n", "i", "f", "e", "s", "t", ".", "j", "s", "o", "n">>

AstroConfigMjs == <<"a", "s", "t", "r", "o", ".", "c", "o", "n", "f", "i", "g", ".", "m", "j", "s">>

AstroConfigJs == <<"a", "s", "t", "r", "o", ".", "c", "o", "n", "f", "i", "g", ".", "j", "s">>

NextConfigJs == <<"n", "e", "x", "t", ".", "c", "o", "n", "f", "i", "g", ".", "j", "s">>

NextConfigMjs == <<"n", "e", "x", "t", ".", "c", "o", "n", "f", "i", "g", ".", "m", "j", "s">>

NextConfigTs == <<"n", "e", "x", "t", ".", "c", "o", "n", "f", "i", "g", ".", "t", "s">>

PackageJson == <<"p", "a", "c", "k", "a", "g", "e", ".", "j", "s", "o", "n">>

DEFAULT_FRAMEWORK_CONFIGS ==
    [n \in {"astro", "react", "next", "vue"} |->
        CASE n = "astro" -> FwAstro [] n = "react" -> FwReact
          [] n = "next" -> FwNext [] n = "vue" -> FwVue]

\* a manifest: framework is "" when the key is missing; frameworkConfig.has is FALSE
\* when the manifest has no frameworkConfig
NoOverride == [has |-> FALSE, name |-> "", contentDir |-> ""]

Manifest(framework, override) ==
    [json |-> "ok", framework |-> framework, frameworkConfig |-> override,
     commands |-> NoCommands]

\* a manifest with a commands key
ManifestWithCommands(framework, commands) ==
    [Manifest(framework, NoOverride) EXCEPT !.commands = commands]

MalformedJson ==
    [json |-> "malformed", framework |-> "", frameworkConfig |-> NoOverride,
     commands |-> NoCommands]

Package(deps) == [json |-> "ok", deps |-> deps]

MalformedPackage == [json |-> "malformed", deps |-> {}]

\* mergeFrameworkConfig (lines 131-149): base, then manifest.frameworkConfig, then name
mergeFrameworkConfig(frameworkName, manifest) ==
    LET baseConfig ==
            IF frameworkName \in DOMAIN DEFAULT_FRAMEWORK_CONFIGS
            THEN DEFAULT_FRAMEWORK_CONFIGS[frameworkName]
            ELSE [name |-> frameworkName, contentDir |-> "src/content",
                  layoutInjection |-> FALSE, layoutPath |-> Null, apiLayoutPath |-> Null,
                  commands |-> NoCommands]
        merged == IF manifest.frameworkConfig.has
                  THEN [baseConfig EXCEPT !.name = manifest.frameworkConfig.name,
                                          !.contentDir = manifest.frameworkConfig.contentDir]
                  ELSE baseConfig
    IN  [merged EXCEPT !.name = frameworkName,
                       !.commands = [k \in {"dev", "build"} |->
                                        IF manifest.commands[k] # Undefined
                                        THEN manifest.commands[k]
                                        ELSE baseConfig.commands[k]]]

\* lines 109-122: the framework the dependencies of package.json hint at, Null without one
FromPackageJson(files) ==
    IF <<PackageJson>> \in DOMAIN files /\ files[<<PackageJson>>].json = "ok"
    THEN LET deps == files[<<PackageJson>>].deps
         IN  IF "next" \in deps THEN DEFAULT_FRAMEWORK_CONFIGS["next"]
             ELSE IF "astro" \in deps THEN DEFAULT_FRAMEWORK_CONFIGS["astro"]
             ELSE IF "vue" \in deps /\ "vite" \in deps THEN DEFAULT_FRAMEWORK_CONFIGS["vue"]
             ELSE IF "react" \in deps /\ "vite" \in deps THEN DEFAULT_FRAMEWORK_CONFIGS["react"]
             ELSE Null
    ELSE Null

\* the manifest at path declares a framework
Declares(files, path) ==
    path \in DOMAIN files /\ files[path].json = "ok" /\ files[path].framework # ""

\* mutant: the next config files are looked for before the astro ones
detectFramework_NextConfigFirst(files) ==
    IF Declares(files, <<LitoManifestJson>>)
    THEN mergeFrameworkConfig(files[<<LitoManifestJson>>].framework, files[<<LitoManifestJson>>])
    ELSE IF Declares(files, <<TemplateManifestJson>>)
    THEN mergeFrameworkConfig(files[<<TemplateManifestJson>>].framework,
                              files[<<TemplateManifestJson>>])
    ELSE IF \E f \in {NextConfigJs, NextConfigMjs, NextConfigTs} : <<f>> \in DOMAIN files
    THEN DEFAULT_FRAMEWORK_CONFIGS["next"]
    ELSE IF <<AstroConfigMjs>> \in DOMAIN files \/ <<AstroConfigJs>> \in DOMAIN files
    THEN DEFAULT_FRAMEWORK_CONFIGS["astro"]
    ELSE IF FromPackageJson(files) # Null THEN FromPackageJson(files)
    ELSE DEFAULT_FRAMEWORK_CONFIGS["astro"]

\* detectFramework (lines 69-126)
detectFramework(files) ==
    IF Declares(files, <<LitoManifestJson>>)
    THEN mergeFrameworkConfig(files[<<LitoManifestJson>>].framework, files[<<LitoManifestJson>>])
    ELSE IF Declares(files, <<TemplateManifestJson>>)
    THEN mergeFrameworkConfig(files[<<TemplateManifestJson>>].framework,
                              files[<<TemplateManifestJson>>])
    ELSE IF <<AstroConfigMjs>> \in DOMAIN files \/ <<AstroConfigJs>> \in DOMAIN files
    THEN DEFAULT_FRAMEWORK_CONFIGS["astro"]
    ELSE IF \E f \in {NextConfigJs, NextConfigMjs, NextConfigTs} : <<f>> \in DOMAIN files
    THEN DEFAULT_FRAMEWORK_CONFIGS["next"]
    ELSE IF FromPackageJson(files) # Null THEN FromPackageJson(files)
    ELSE DEFAULT_FRAMEWORK_CONFIGS["astro"]

\* the frameworkConfig of a caller that has not called detectFramework yet
FwUnset ==
    [name |-> "unset", contentDir |-> "", layoutInjection |-> FALSE,
     layoutPath |-> Null, apiLayoutPath |-> Null, commands |-> NoCommands]

LitoManifests ==
    { MalformedJson, Manifest("", NoOverride), Manifest("astro", NoOverride),
      Manifest("vue", [has |-> TRUE, name |-> "react", contentDir |-> "content"]),
      Manifest("svelte", NoOverride),
      ManifestWithCommands("nuxt", Commands(<<"nuxt", <<"dev">> >>, <<"nuxt", <<"build">> >>)),
      ManifestWithCommands("react", Commands(<<"rsbuild", <<"dev">> >>, Undefined)) }

TemplateManifests ==
    { MalformedJson, Manifest("", NoOverride), Manifest("next", NoOverride),
      Manifest("nuxt", [has |-> TRUE, name |-> "astro", contentDir |-> "src/pages"]) }

Packages ==
    { MalformedPackage } \cup { Package(d) : d \in SUBSET {"next", "astro", "vue", "react", "vite"} }

\* a file at the root of projectDir, or none
OneOf(name, contents) == { NoFiles } \cup { [p \in { <<name>> } |-> c] : c \in contents }

ProjectRoots ==
    { Both(Both(Both(l, t), Both(a, n)), k) :
        l \in OneOf(LitoManifestJson, LitoManifests),
        t \in OneOf(TemplateManifestJson, TemplateManifests),
        a \in OneOf(AstroConfigMjs, {<<"e", "x", "p", "o", "r", "t">>}) \cup OneOf(AstroConfigJs, {<<"e", "x", "p", "o", "r", "t">>}),
        n \in OneOf(NextConfigJs, {<<"e", "x", "p", "o", "r", "t">>}) \cup OneOf(NextConfigTs, {<<"e", "x", "p", "o", "r", "t">>}),
        k \in OneOf(PackageJson, Packages) }

InitFramework ==
    \E root \in ProjectRoots :
        /\ project = root
        /\ results = {}
        /\ NoSlug /\ NoHmr /\ NoWatcher
        /\ frameworkConfig = FwUnset
        /\ sourcePath = DocsPath
        /\ docsConfig = ConfigAbsent
        /\ source = SourceTree({}, ConfigAbsent)
        /\ target = EmptyTree
        /\ styles = NoStyles
        /\ pc = "detectFramework"
        /\ run = "first"
        /\ versionFolders = {}
        /\ localeFolders = {}
        /\ unit = NoUnits
        /\ copyLog = {}
        /\ landingType = "unset"
        /\ firstOutput = <<EmptyTree, NoStyles>>

\* a call detectFramework(projectDir)
DetectFrameworkCall ==
    /\ pc = "detectFramework"
    /\ frameworkConfig' = detectFramework(project)
    /\ pc' = "frameworkDetected"
    /\ UNCHANGED <<sourcePath, source, docsConfig, target, styles, run, versionFolders,
                   localeFolders, unit, copyLog, landingType, project, firstOutput, results, slugVars, hmrVars, devVars>>

\* runFrameworkDev (lines 154-171) and runFrameworkBuild (176-181): the destructuring of
\* commands.dev or commands.build throws a TypeError on undefined
RunFramework(command) ==
    /\ pc = "frameworkDetected"
    /\ pc' = IF frameworkConfig.commands[command] = Undefined THEN "rejected"
             ELSE IF command = "dev" THEN "devServer" ELSE "built"
    /\ UNCHANGED <<inputs, target, styles, run, versionFolders, localeFolders, unit, copyLog,
                   landingType, project, firstOutput, results, slugVars, hmrVars, devVars>>

NextFramework ==
    \/ DetectFrameworkCall
    \/ \E command \in {"dev", "build"} : RunFramework(command)

SpecFramework == InitFramework /\ [][NextFramework]_vars

ConfigNull == [ConfigAbsent EXCEPT !.state = "null"]

FaultScenarios ==
    Scenarios \cup { Scenario(ConfigNull, DocsPath, FwAstro, TemplatePages, Styles(PlainGlobalCss)) }

InitFaults ==
    \E fs \in { S \in SUBSET CandidateFiles : Cardinality(S) <= MaxFiles }, sc \in FaultScenarios :
        /\ sourcePath = sc.sourcePath
        /\ source = SourceTree(fs, sc.cfg)
        /\ docsConfig = sc.cfg
        /\ frameworkConfig = sc.fw
        /\ target = sc.pages
        /\ styles = sc.styles
        /\ pc = "start"
        /\ run = "first"
        /\ versionFolders = {}
        /\ localeFolders = {}
        /\ unit = NoUnits
        /\ copyLog = {}
        /\ landingType = "unset"
        /\ project = NoFiles
        /\ results = {}
        /\ NoSlug /\ NoHmr /\ NoWatcher
        /\ firstOutput = <<sc.pages, sc.styles>>

\* lines 178-185, 198-205: ensureDir or copy of a unit throws
UnitCopyFails(group, folder) ==
    /\ pc = group
    /\ folder \in DOMAIN unit /\ unit[folder] = "copy"
    /\ unit' = [unit EXCEPT ![folder] = "failed"]
    /\ pc' = "rejected"
    /\ UNCHANGED <<inputs, target, styles, run, versionFolders, localeFolders, copyLog,
                   landingType, project, firstOutput, results, slugVars, hmrVars, devVars>>

\* lines 188-190, 208-210: injectLayoutIntoMarkdown of a unit throws
UnitInjectFails(group, folder) ==
    /\ pc = group
    /\ folder \in DOMAIN unit /\ unit[folder] = "inject"
    /\ unit' = [unit EXCEPT ![folder] = "failed"]
    /\ pc' = "rejected"
    /\ UNCHANGED <<inputs, target, styles, run, versionFolders, localeFolders, copyLog,
                   landingType, project, firstOutput, results, slugVars, hmrVars, devVars>>

\* lines 234-235: getDocsConfig returns null and docsConfig.landing throws a TypeError
LandingOfNullThrows ==
    /\ pc = "landing"
    /\ docsConfig.state = "null"
    /\ pc' = "rejected"
    /\ UNCHANGED <<inputs, target, styles, run, versionFolders, localeFolders, unit, copyLog,
                   landingType, project, firstOutput, results, slugVars, hmrVars, devVars>>

NextFaults ==
    \/ Next
    \/ \E v \in versionFolders : UnitCopyFails("versions", v)
    \/ \E v \in versionFolders : UnitInjectFails("versions", v)
    \/ \E l \in localeFolders : UnitCopyFails("locales", l)
    \/ \E l \in localeFolders : UnitInjectFails("locales", l)
    \/ LandingOfNullThrows

SpecFaults == InitFaults /\ [][NextFaults]_vars

UnitFailed == \E f \in DOMAIN unit : unit[f] = "failed"

(***************************************************************************)
(* C14 (as claimed): a failure of one version or locale unit does not     *)
(* abort syncDocs.                                                        *)
(***************************************************************************)
C14_UnitFailureNotFatal == UnitFailed => pc # "rejected"

(***************************************************************************)
(* C15 (as claimed): whatever docs-config.json holds, syncDocs does not   *)
(* fail because of it, and a section the file does not give has its       *)
(* default: locales ['en'], versioning disabled, no landing.              *)
(***************************************************************************)
C15_ConfigNeverFatal ==
    LET lacks(key) == docsConfig.state # "ok" \/ ~docsConfig[key].present
    IN  /\ ~UnitFailed => pc # "rejected"
        /\ (pc # "start" /\ lacks("versioning")) => versionFolders = {}
        /\ (pc # "start" /\ lacks("i18n")) => localeFolders = detectLocaleFolders(source, <<En>>)
        /\ lacks("landing") => landingType = "unset" /\ project = NoFiles

(***************************************************************************)
(* C16 (as claimed): a page that starts with '---' and has no closing     *)
(* '---' is a page without frontmatter: parseFrontmatter gives no data    *)
(* and the whole content as body, and the injection puts a synthesized    *)
(* block with title and layout in front of the unchanged content.         *)
(***************************************************************************)
C16_UnclosedIsNoFrontmatter ==
    (pc = "done" /\ shouldInjectLayout) =>
        \A r \in copyLog :
            LET p == r.path
                content == source[p].content
            IN  ( /\ IsMarkdownName(p[Len(p)]) /\ p \in DOMAIN target
                  /\ StartsWith(content, Fence) /\ IndexOf(content, Fence, 3) = -1 ) =>
                    /\ DOMAIN parseFrontmatter(content).data = {}
                    /\ parseFrontmatter(content).body = content
                    /\ StartsWith(target[p].content, Fence \o NL)
                    /\ LinesStarting(target[p].content, KwLayout) = 1
                    /\ EndsWith(target[p].content, NL \o Fence \o NL \o NL \o content)

(***************************************************************************)
(* collectMarkdownFiles of scaffold.js: the .md/.mdx files below docsPath *)
(* that the walk reaches.                                                 *)
(***************************************************************************)
NodeModules == <<"n", "o", "d", "e", "_", "m", "o", "d", "u", "l", "e", "s">>

Public == <<"p", "u", "b", "l", "i", "c">>

ReadmeMd == <<"R", "E", "A", "D", "M", "E", ".", "m", "d">>

EXCLUDED_FOLDERS == SPECIAL_FOLDERS \cup {NodeModules}

EXCLUDED_FILES == {DocsConfigJson, VercelJson, <<"n", "e", "t", "l", "i", "f", "y", ".", "t", "o", "m", "l">>, ReadmeMd}

\* lines 142-147: a file entry is a result
IsResult(name) ==
    /\ name \notin EXCLUDED_FILES
    /\ ToLowerCase(extname(name)) \in {ExtMd, ExtMdx}

\* walk (lines 129-150): rel is the path of the entry from docsPath, topSegment its first segment
RECURSIVE walk(_, _)
walk(tree, dir) ==
    LET entries == Entries(tree, dir)
        files   == { q \in entries : tree[q].kind = "file" /\ IsResult(q[Len(q)]) }
        walked  == { q \in entries :
                       /\ tree[q].kind = "dir"
                       /\ ~(q[1] \in EXCLUDED_FOLDERS \/ q[Len(q)] \in EXCLUDED_FOLDERS) }
    IN  files \cup UNION { walk(tree, q) : q \in walked }

collectMarkdownFiles(docsPath, tree) ==
    { [absolutePath |-> JoinPath(docsPath, q), relativePath |-> Join(q, <<sep>>)] :
        q \in walk(tree, <<>>) }

CollectFiles ==
    { F(<<Guide, IntroMd>>, TitlePage),         F(<<Guide, Public, PageMd>>, PlainPage),
      F(<<Public, PageMd>>, PlainPage),         F(<<Guide, NodeModules, PageMd>>, PlainPage),
      F(<<ReadmeMd>>, PlainPage),               F(<<Guide, ReadmeMd>>, PlainPage),
      F(<<<<"I", "N", "D", "E", "X", ".", "M", "D", "X">>>>, TitlePage),            F(<<CssDir, PageMd>>, PlainPage),
      F(<<Guide, <<"n", "o", "t", "e", "s", ".", "t", "x", "t">>>>, PlainPage),     F(<<Guide, Public, Es, IntroMd>>, TitlePage),
      F(<<DocsConfigJson>>, <<"{">>) }

InitCollect ==
    \E fs \in SUBSET CollectFiles :
        /\ sourcePath = DocsPath
        /\ source = MkTree(fs)
        /\ docsConfig = ConfigAbsent
        /\ frameworkConfig = FwAstro
        /\ target = EmptyTree
        /\ styles = NoStyles
        /\ pc = "collect"
        /\ run = "first"
        /\ versionFolders = {}
        /\ localeFolders = {}
        /\ unit = NoUnits
        /\ copyLog = {}
        /\ landingType = "unset"
        /\ project = NoFiles
        /\ results = {}
        /\ NoSlug /\ NoHmr /\ NoWatcher
        /\ firstOutput = <<EmptyTree, NoStyles>>

\* a call collectMarkdownFiles(docsPath)
CollectCall ==
    /\ pc = "collect"
    /\ results' = collectMarkdownFiles(sourcePath, source)
    /\ pc' = "collected"
    /\ UNCHANGED <<inputs, target, styles, run, versionFolders, localeFolders, unit, copyLog,
                   landingType, project, firstOutput, slugVars, hmrVars, devVars>>

NextCollect == CollectCall

SpecCollect == InitCollect /\ [][NextCollect]_vars

(***************************************************************************)
(* C17 (as claimed): collectMarkdownFiles leaves out a directory only     *)
(* when the first segment of its path from the docs root is an excluded   *)
(* folder name: every .md/.mdx file that is not an excluded file and      *)
(* whose first path segment is not an excluded folder is returned, also   *)
(* below a nested directory named public.                                 *)
(***************************************************************************)
C17_ExcludedByFirstSegmentOnly ==
    pc = "collected" =>
        \A p \in DOMAIN source :
            ( /\ source[p].kind = "file"
              /\ IsMarkdownName(ToLowerCase(p[Len(p)]))
              /\ p[Len(p)] \notin EXCLUDED_FILES
              /\ ~(Len(p) > 1 /\ p[1] \in EXCLUDED_FOLDERS) )
            => \E r \in results : r.relativePath = Join(p, <<sep>>)

(***************************************************************************)
(* C18 (as claimed): after syncDocs on an astro project whose docs folder *)
(* has a root index.md or index.mdx, contentDir holds no index.astro.     *)
(***************************************************************************)
C18_UserIndexIsOnlyEntry ==
    ( /\ pc = "done"
      /\ frameworkConfig.name = "astro"
      /\ \E file \in {IndexMd, IndexMdx} : IsFile(source, <<file>>) )
    => <<IndexAstro>> \notin DOMAIN target

\* the entry page of the framework where the landing step writes it, Null when it is not there
EntryPage ==
    LET at(files, p) == IF p \in DOMAIN files THEN files[p] ELSE Null
    IN  CASE frameworkConfig.name = "react" -> at(project, <<SrcDir, PagesDir, IndexJsx>>)
          [] frameworkConfig.name = "next"  -> at(project, <<AppDir, PageJsx>>)
          [] frameworkConfig.name = "vue"   -> at(project, <<SrcDir, PagesDir, IndexVue>>)
          [] frameworkConfig.name = "nuxt"  -> at(project, <<PagesDir, IndexVue>>)
          [] OTHER -> IF <<IndexAstro>> \in DOMAIN target /\ target[<<IndexAstro>>].content # AstroPage
                      THEN target[<<IndexAstro>>].content
                      ELSE Null

(***************************************************************************)
(* C19 (as claimed): when _landing/index.html exists, landing.enabled is  *)
(* not false and landing.type is not set, syncDocs detects the type       *)
(* custom and writes the framework's entry page with the content of that  *)
(* file in it; for a full HTML document the astro page has exactly one    *)
(* html element.                                                          *)
(***************************************************************************)
C19_CustomLandingGenerated ==
    ( /\ pc \in {"hmr", "done"}
      /\ IsFile(source, <<LandingDir, IndexHtml>>)
      /\ docsConfig.landing.enabled # "false"
      /\ docsConfig.landing.type = "undefined" )
    => /\ landingType = "custom"
       /\ EntryPage # Null
       /\ Includes(EntryPage, Marker)
       /\ ( frameworkConfig.name = "astro"
            /\ isFullDoc(source[<<LandingDir, IndexHtml>>].content) )
          => Cardinality(Occ(EntryPage, <<"<", "h", "t", "m", "l">>)) = 1

(***************************************************************************)
(* C20: after the landing step of a sections landing, on every framework  *)
(* src/data/landing-sections.json holds {type: 'sections', sections} with *)
(* one entry per configured section; a custom section whose HTML file is  *)
(* missing is the config entry unchanged and one whose file exists has    *)
(* the file's content attached; the composed index.astro is written when  *)
(* the framework is astro and a section has type custom, and in no other  *)
(* case; no other entry page is written.                                  *)
(***************************************************************************)
C20_SectionsManifestAndPage ==
    (pc \in {"hmr", "done"} /\ landingType = "sections") =>
        LET configured == docsConfig.landing.sectionList
            manifest   == <<SrcDir, DataDir, LandingSectionsJson>>
            isCustom(s) == s.type = SectionCustom
        IN  /\ manifest \in DOMAIN project
            /\ project[manifest].type = "sections"
            /\ Len(project[manifest].sections) = Len(configured)
            /\ \A i \in DOMAIN configured :
                  LET entry == project[manifest].sections[i]
                  IN  IF isCustom(configured[i]) /\ IsFile(source, configured[i].html)
                      THEN entry = [configured[i] EXCEPT
                                       !.content = source[configured[i].html].content]
                      ELSE entry = configured[i]
            /\ LandingPageWritten <=>
                  ( /\ frameworkConfig.name = "astro"
                    /\ \E i \in DOMAIN configured : isCustom(configured[i]) )
            /\ frameworkConfig.name # "astro" => EntryPage = Null

\* astro, a custom section whose file is missing followed by a hero section: the
\* manifest has both entries as configured and the page is written
C20_Witness ==
    /\ pc = "hmr" /\ landingType = "sections"
    /\ frameworkConfig.name = "astro"
    /\ docsConfig.landing.sectionList = << Section(SectionCustom, <<MissingHtml>>), Section(<<"h", "e", "r", "o">>, Null) >>
    /\ project[<<SrcDir, DataDir, LandingSectionsJson>>].sections = docsConfig.landing.sectionList
    /\ LandingPageWritten

(***************************************************************************)
(* deriveSlug of scaffold.js.                                             *)
(***************************************************************************)
SlashIndex == <<"/", "i", "n", "d", "e", "x">>

Index == <<"i", "n", "d", "e", "x">>

\* deriveSlug (lines 207-222)
deriveSlug(relativePath) ==
    LET slug0 == Join(Split(StripMdExt(relativePath), sep), <<"/">>)
        slug1 == IF EndsWith(slug0, SlashIndex) THEN SubSeq(slug0, 1, Len(slug0) - 6) ELSE slug0
        slug2 == IF slug1 = Index THEN <<>> ELSE slug1
    IN  <<"/">> \o slug2

\* the directory names and the page names (what collectMarkdownFiles returns) the
\* relative paths are made of
SlugDirs == { <<"a">>, Index, <<"v", "1", ".", "0">> }

SlugFiles == { IndexMd, IndexMdx, <<"b", ".", "m", "d">>, <<"c", ".", "m", "d", "x">>, <<"I", "N", "D", "E", "X", ".", "M", "D">> }

MaxDepth == 2

RelativePaths ==
    { Join(dirs \o <<file>>, <<sep>>) :
        dirs \in UNION { [1 .. n -> SlugDirs] : n \in 0 .. MaxDepth }, file \in SlugFiles }

InitSlug ==
    \E p \in RelativePaths :
        /\ slugInput = p
        /\ slug = <<>>
        /\ sourcePath = DocsPath
        /\ docsConfig = ConfigAbsent
        /\ source = EmptyTree
        /\ frameworkConfig = FwAstro
        /\ target = EmptyTree
        /\ styles = NoStyles
        /\ pc = "deriveSlug"
        /\ run = "first"
        /\ versionFolders = {}
        /\ localeFolders = {}
        /\ unit = NoUnits
        /\ copyLog = {}
        /\ landingType = "unset"
        /\ project = NoFiles
        /\ results = {}
        /\ firstOutput = <<EmptyTree, NoStyles>>
        /\ NoHmr /\ NoWatcher

\* a call deriveSlug(relativePath)
DeriveSlugCall ==
    /\ pc = "deriveSlug"
    /\ slug' = deriveSlug(slugInput)
    /\ pc' = "slugDerived"
    /\ UNCHANGED <<inputs, target, styles, run, versionFolders, localeFolders, unit, copyLog,
                   landingType, project, results, firstOutput, slugInput, hmrVars, devVars>>

NextSlug == DeriveSlugCall

SpecSlug == InitSlug /\ [][NextSlug]_vars

(***************************************************************************)
(* C21 (as claimed): deriveSlug(p) starts with '/'; a bare index.md or    *)
(* index.mdx gives '/'; a path that ends with the segment index.md or     *)
(* index.mdx gives '/' and the path without that segment; any other path  *)
(* gives '/' and the path without its .md/.mdx extension.                 *)
(***************************************************************************)
C21_SlugOfPath ==
    pc = "slugDerived" =>
        LET segs == Split(slugInput, sep)
            file == segs[Len(segs)]
            dirs == SubSeq(segs, 1, Len(segs) - 1)
        IN  /\ StartsWith(slug, <<"/">>)
            /\ IF file \in {IndexMd, IndexMdx}
               THEN slug = <<"/">> \o Join(dirs, <<"/">>)
               ELSE slug = <<"/">> \o StripMdExt(slugInput)

fallbackFiles == << <<"m", "a", "i", "n", ".", "j", "s", "x">>, <<"m", "a", "i", "n", ".", "t", "s", "x">>, <<"A", "p", "p", ".", "j", "s", "x">>, <<"A", "p", "p", ".", "t", "s", "x">>, <<"i", "n", "d", "e", "x", ".", "j", "s", "x">>, <<"i", "n", "d", "e", "x", ".", "t", "s", "x">> >>

InitHMR ==
    \E fw \in {FwReact, FwNext, FwVue}, w \in BOOLEAN,
       fs \in [1 .. Len(fallbackFiles) -> {"missing", "ok", "locked"}] :
        /\ frameworkConfig = fw
        /\ triggerWritable = w
        /\ fallbackState = fs
        /\ fileIndex = 0
        /\ touched = <<>>
        /\ sourcePath = DocsPath
        /\ docsConfig = ConfigAbsent
        /\ source = EmptyTree
        /\ target = EmptyTree
        /\ styles = NoStyles
        /\ pc = "hmr"
        /\ run = "first"
        /\ versionFolders = {}
        /\ localeFolders = {}
        /\ unit = NoUnits
        /\ copyLog = {}
        /\ landingType = "unset"
        /\ project = NoFiles
        /\ results = {}
        /\ firstOutput = <<EmptyTree, NoStyles>>
        /\ NoSlug /\ NoWatcher

\* lines 446-466: ensureDir or writeFile throws and the catch block is entered
TriggerWriteFails ==
    /\ pc = "hmr"
    /\ frameworkConfig.name # "astro"
    /\ ~triggerWritable
    /\ fileIndex' = 0
    /\ pc' = "fallback"
    /\ UNCHANGED <<inputs, target, styles, run, versionFolders, localeFolders, unit, copyLog,
                   landingType, project, results, firstOutput, triggerWritable, fallbackState,
                   touched, slugVars, devVars>>

\* mutant: the loop goes on after a touch that succeeded
FallbackFile_NoBreak ==
    /\ pc = "fallback"
    /\ fileIndex < Len(fallbackFiles)
    /\ touched' = IF fallbackState[fileIndex + 1] = "ok"
                  THEN Append(touched, fallbackFiles[fileIndex + 1])
                  ELSE touched
    /\ fileIndex' = fileIndex + 1
    /\ UNCHANGED <<inputs, target, styles, pc, run, versionFolders, localeFolders, unit, copyLog,
                   landingType, project, results, firstOutput, triggerWritable, fallbackState,
                   slugVars, devVars>>

\* lines 477-488: one turn of the for loop over fallbackFiles; a missing file and a
\* file whose utimes throws are passed over, a touch that succeeds breaks the loop
FallbackFile ==
    /\ pc = "fallback"
    /\ fileIndex < Len(fallbackFiles)
    /\ IF fallbackState[fileIndex + 1] = "ok"
       THEN /\ touched' = Append(touched, fallbackFiles[fileIndex + 1])
            /\ pc' = "done"
            /\ UNCHANGED fileIndex
       ELSE /\ fileIndex' = fileIndex + 1
            /\ UNCHANGED <<touched, pc>>
    /\ UNCHANGED <<inputs, target, styles, run, versionFolders, localeFolders, unit, copyLog,
                   landingType, project, results, firstOutput, triggerWritable, fallbackState,
                   slugVars, devVars>>

\* the loop ends without a touch: triggerHMR returns
FallbackExhausted ==
    /\ pc = "fallback"
    /\ fileIndex = Len(fallbackFiles)
    /\ pc' = "done"
    /\ UNCHANGED <<inputs, target, styles, run, versionFolders, localeFolders, unit, copyLog,
                   landingType, project, results, firstOutput, hmrVars, slugVars, devVars>>

NextHMR == TriggerHMR \/ TriggerWriteFails \/ FallbackFile \/ FallbackExhausted

SpecHMR == InitHMR /\ [][NextHMR]_vars

(***************************************************************************)
(* C25: triggerHMR never ends with an error.  When the trigger file can   *)
(* be written nothing else is touched; when it cannot, the fallback files *)
(* are tried in the order of the list, none is tried after the first one  *)
(* that exists and can be touched, at most one is touched, and none is    *)
(* touched only when every one is missing or fails.                       *)
(***************************************************************************)
C25_TriggerNeverThrows ==
    LET usable == { i \in 1 .. Len(fallbackFiles) : fallbackState[i] = "ok" }
    IN  /\ pc # "rejected"
        /\ Len(touched) <= 1
        /\ pc = "fallback" => \A j \in 1 .. fileIndex : fallbackState[j] # "ok"
        /\ pc = "done" =>
              IF triggerWritable
              THEN touched = <<>> /\ <<SrcDir, HmrTriggerFile>> \in DOMAIN project
              ELSE /\ <<SrcDir, HmrTriggerFile>> \notin DOMAIN project
                   /\ IF usable = {} THEN touched = <<>>
                      ELSE touched = << fallbackFiles[MinOf(usable)] >>

\* the trigger file could not be written, main.jsx is missing, main.tsx could not be
\* touched, App.jsx was touched and index.jsx, which could be, was left alone
C25_Witness ==
    /\ pc = "done" /\ ~triggerWritable
    /\ fallbackState[1] = "missing" /\ fallbackState[2] = "locked"
    /\ fallbackState[3] = "ok" /\ fallbackState[5] = "ok"
    /\ touched = << fallbackFiles[3] >>

(***************************************************************************)
(* syncDocs with the four tasks of syncUserAssets as concurrent units:    *)
(* every task is started before Promise.all(tasks) is awaited.            *)
(***************************************************************************)
AssetsFolder == <<"_", "a", "s", "s", "e", "t", "s">>

ImagesFolder == <<"_", "i", "m", "a", "g", "e", "s">>

\* the source folder and the target directory (below projectDir) of each task
UserAssetTargets ==
    [f \in {AssetsFolder, ImagesFolder, PublicDir, CssDir} |->
        CASE f = AssetsFolder -> <<PublicDir, <<"a", "s", "s", "e", "t", "s">>>>
          [] f = ImagesFolder -> <<PublicDir, <<"i", "m", "a", "g", "e", "s">>>>
          [] f = PublicDir    -> <<PublicDir>>
          [] f = CssDir       -> <<SrcDir, StylesDir>>]

\* the files copy(source/folder, target, {overwrite: true}) writes, as <<from, to>>;
\* the _css task copies the .css files at the top of _css only
AssetCopies(tree, folder) ==
    { <<p, Rebase(p, <<folder>>, UserAssetTargets[folder])>> :
        p \in { q \in DOMAIN tree :
                  /\ tree[q].kind = "file" /\ IsPrefix(<<folder>>, q)
                  /\ folder = CssDir => (Len(q) = 2 /\ EndsWith(q[2], ExtCss)) } }

AssetCandidateFiles ==
    { F(<<AssetsFolder, LogoPng>>, <<"A">>),           F(<<PublicDir, <<"a", "s", "s", "e", "t", "s">>, LogoPng>>, <<"P">>),
      F(<<ImagesFolder, <<"a", ".", "p", "n", "g">>>>, <<"I">>),           F(<<PublicDir, <<"f", "a", "v", "i", "c", "o", "n", ".", "i", "c", "o">>>>, <<"F">>),
      F(<<CssDir, CustomCss>>, <<"a", "{", "}">>),             F(<<V1, PageMd>>, PlainPage),
      F(<<V10, PageMd>>, TitlePage),               F(<<Fr, IndexMd>>, TitlePage),
      F(<<IndexMd>>, PlainPage) }

AssetScenarios ==
    { Scenario(ConfigLocalesVersions, DocsPath, FwAstro, TemplatePages, Styles(PlainGlobalCss)),
      Scenario(ConfigLocalesVersions, DocsPath, FwReact, EmptyTree, NoStyles) }

InitAssets ==
    \E fs \in { S \in SUBSET AssetCandidateFiles : Cardinality(S) <= MaxFiles },
       sc \in AssetScenarios :
        /\ sourcePath = sc.sourcePath
        /\ source = SourceTree(fs, sc.cfg)
        /\ docsConfig = sc.cfg
        /\ frameworkConfig = sc.fw
        /\ target = sc.pages
        /\ styles = sc.styles
        /\ pc = "start"
        /\ run = "first"
        /\ versionFolders = {}
        /\ localeFolders = {}
        /\ unit = NoUnits
        /\ copyLog = {}
        /\ landingType = "unset"
        /\ project = NoFiles
        /\ results = {}
        /\ NoSlug /\ NoHmr /\ NoWatcher
        /\ firstOutput = <<sc.pages, sc.styles>>

\* lines 250-353: the four async functions are called, each runs up to its first await
StartAssetTasks ==
    /\ pc = "assets"
    /\ unit' = [f \in DOMAIN UserAssetTargets |-> "copy"]
    /\ pc' = "assetTasks"
    /\ UNCHANGED <<inputs, target, styles, run, versionFolders, localeFolders, copyLog,
                   landingType, firstOutput, project, results, slugVars, hmrVars, devVars>>

\* one task runs to its end: pathExists, ensureDir, copy; the _css task as SyncCss
AssetTask(folder) ==
    /\ pc = "assetTasks"
    /\ folder \in DOMAIN unit /\ unit[folder] = "copy"
    /\ LET copies == AssetCopies(source, folder)
       IN  /\ IF folder = CssDir
              THEN styles' = SyncCss(source, styles) /\ UNCHANGED project
              ELSE /\ project' = [q \in DOMAIN project \cup { c[2] : c \in copies } |->
                                    IF \E c \in copies : c[2] = q
                                    THEN source[(CHOOSE c \in copies : c[2] = q)[1]].content
                                    ELSE project[q]]
                   /\ UNCHANGED styles
           /\ copyLog' = copyLog \cup Logged("assets", folder, { c[2] : c \in copies })
    /\ unit' = [unit EXCEPT ![folder] = "done"]
    /\ UNCHANGED <<inputs, target, pc, run, versionFolders, localeFolders, landingType,
                   firstOutput, results, slugVars, hmrVars, devVars>>

\* line 355: await Promise.all(tasks) resolves
AssetsJoined ==
    /\ pc = "assetTasks" /\ AllUnitsDone
    /\ unit' = NoUnits
    /\ pc' = "landing"
    /\ UNCHANGED <<inputs, target, styles, run, versionFolders, localeFolders, copyLog,
                   landingType, firstOutput, project, results, slugVars, hmrVars, devVars>>

NextAssets ==
    \/ Detect
    \/ RootCopy
    \/ \E v \in versionFolders : UnitCopy("versions", v)
    \/ \E v \in versionFolders : VersionInject(v)
    \/ VersionsJoined
    \/ \E l \in localeFolders : UnitCopy("locales", l)
    \/ \E l \in localeFolders : LocaleInject(l)
    \/ LocalesJoined
    \/ RootInject
    \/ RemoveDefaultIndex
    \/ StartAssetTasks
    \/ \E f \in DOMAIN UserAssetTargets : AssetTask(f)
    \/ AssetsJoined
    \/ SyncLanding
    \/ TriggerHMR
    \/ Return

SpecAssets == InitAssets /\ [][NextAssets]_vars

\* the file below projectDir a logged copy writes: a version, locale or root copy keeps
\* the path below contentDir, an asset task logs its destination
Destination(r) ==
    IF r.pass = "assets" THEN r.path ELSE ContentDirPath(frameworkConfig) \o r.path

(***************************************************************************)
(* C22: no two units that run concurrently (two version units, two locale *)
(* units, two of the four asset tasks) write the same destination file.   *)
(***************************************************************************)
C22_DisjointDestinations ==
    \A r1, r2 \in copyLog :
        (r1.pass = r2.pass /\ r1.pass \in {"versions", "locales", "assets"}
            /\ r1.folder # r2.folder)
        => Destination(r1) # Destination(r2)

(***************************************************************************)
(* C23: when syncDocs returns, resolved or rejected, no unit it started   *)
(* is still running: every version, locale and injection unit has ended.  *)
(***************************************************************************)
C23_UnitsJoinedAtReturn ==
    pc \in {"done", "rejected"} => \A f \in DOMAIN unit : unit[f] \in {"done", "failed"}

(***************************************************************************)
(* The dev command: a page of the docs folder is deleted between two      *)
(* syncs (the watcher's unlink event, dev.js lines 118-121, calls         *)
(* debouncedSync and with it syncDocs on the changed folder).             *)
(***************************************************************************)
IsPage(tree, p) ==
    /\ p \in DOMAIN tree /\ tree[p].kind = "file"
    /\ (EndsWith(p[Len(p)], ExtMd) \/ EndsWith(p[Len(p)], ExtMdx))

\* the user deletes one page after the first sync returned
UnlinkPage(p) ==
    /\ pc = "done" /\ run = "first"
    /\ IsPage(source, p)
    /\ source' = [q \in DOMAIN source \ {p} |-> source[q]]
    /\ UNCHANGED <<sourcePath, docsConfig, frameworkConfig, target, styles, pc, run,
                   versionFolders, localeFolders, unit, copyLog, landingType, project,
                   results, firstOutput, slugVars, hmrVars, devVars>>

NextResync ==
    \/ Next
    \/ \E p \in DOMAIN source : UnlinkPage(p)

SpecResync == Init /\ [][NextResync]_vars

\* the files of a tree
FilesOf(tree) == { p \in DOMAIN tree : tree[p].kind = "file" }

\* a step of syncDocs keeps every file of the project, but for index.astro of contentDir
\* in the clean-up step when contentDir holds index.md or index.mdx
StepKeepsFiles ==
    /\ \A p \in FilesOf(target) :
          \/ p \in FilesOf(target')
          \/ /\ p = <<IndexAstro>> /\ pc = "index"
             /\ \E file \in {IndexMd, IndexMdx} : <<file>> \in FilesOf(target)
    /\ DOMAIN styles \subseteq DOMAIN styles'
    /\ DOMAIN project \subseteq DOMAIN project'

InjectedLine(p, key) ==
    /\ Includes(target[p].content, key \o <<" ">> \o p[1] \o NL)
    /\ ~(p \in FilesOf(source) /\ Includes(source[p].content, key))

(***************************************************************************)
(* C26: no page of contentDir holds both a lang: line and a docVersion:   *)
(* line added by the sync, also when a top-level folder is a locale       *)
(* folder and a version folder at once.                                   *)
(***************************************************************************)
C26_LangXorDocVersion ==
    pc = "done" =>
        \A p \in FilesOf(target) :
            Len(p) >= 2 => ~(InjectedLine(p, KwLang) /\ InjectedLine(p, KwDocVersion))

(***************************************************************************)
(* The watcher of the dev command (dev.js): debouncedSync, its timer and  *)
(* the re-sync the timer starts.  syncTimeout counts the timers that are  *)
(* armed (set and neither fired nor cleared); pc is the state of the      *)
(* re-sync: "start" while it runs, "done" or "rejected" when it settled.  *)
(***************************************************************************)
MaxEvents == 5

WatcherEvents == {"change", "add", "unlink"}

InitDev ==
    /\ sourcePath = DocsPath
    /\ docsConfig = ConfigAbsent
    /\ source = EmptyTree
    /\ frameworkConfig \in {FwAstro, FwReact}
    /\ target = EmptyTree
    /\ styles = NoStyles
    /\ pc = "done"
    /\ run = "first"
    /\ versionFolders = {}
    /\ localeFolders = {}
    /\ unit = NoUnits
    /\ copyLog = {}
    /\ landingType = "unset"
    /\ project = NoFiles
    /\ results = {}
    /\ firstOutput = <<EmptyTree, NoStyles>>
    /\ NoSlug /\ NoHmr /\ NoWatcher

\* mutant: the timer armed before is not cleared
WatcherEvent_NoClear(e) ==
    /\ events < MaxEvents
    /\ events' = events + 1
    /\ unsynced' = TRUE
    /\ IF isSyncing
       THEN UNCHANGED <<syncTimeout, burst>>
       ELSE syncTimeout' = syncTimeout + 1 /\ burst' = burst + 1
    /\ UNCHANGED <<inputs, target, styles, pc, run, versionFolders, localeFolders, unit, copyLog,
                   landingType, project, results, firstOutput, isSyncing, started, settled,
                   slugVars, hmrVars>>

\* lines 102-121 and 77-83: an event of the watcher calls debouncedSync, which returns
\* when a sync runs and otherwise clears the timer and arms a new one
WatcherEvent(e) ==
    /\ events < MaxEvents
    /\ events' = events + 1
    /\ unsynced' = TRUE
    /\ IF isSyncing
       THEN UNCHANGED <<syncTimeout, burst>>
       ELSE syncTimeout' = 1 /\ burst' = burst + 1
    /\ UNCHANGED <<inputs, target, styles, pc, run, versionFolders, localeFolders, unit, copyLog,
                   landingType, project, results, firstOutput, isSyncing, started, settled,
                   slugVars, hmrVars>>

\* lines 83-91: the timer's callback, 300 ms after the last event that armed it
TimerFires ==
    /\ syncTimeout > 0
    /\ syncTimeout' = syncTimeout - 1
    /\ IF isSyncing
       THEN UNCHANGED <<isSyncing, started, burst, unsynced, pc>>
       ELSE /\ isSyncing' = TRUE
            /\ started' = started + 1
            /\ burst' = 0
            /\ unsynced' = FALSE
            /\ pc' = "start"
    /\ UNCHANGED <<inputs, target, styles, run, versionFolders, localeFolders, unit, copyLog,
                   landingType, project, results, firstOutput, events, settled,
                   slugVars, hmrVars>>

\* lines 92-98: Promise.all of the re-sync resolves or rejects; finally clears isSyncing
SyncSettles(outcome) ==
    /\ isSyncing
    /\ isSyncing' = FALSE
    /\ settled' = settled + 1
    /\ pc' = outcome
    /\ UNCHANGED <<inputs, target, styles, run, versionFolders, localeFolders, unit, copyLog,
                   landingType, project, results, firstOutput, syncTimeout, events, started,
                   burst, unsynced, slugVars, hmrVars>>

NextDev ==
    \/ \E e \in WatcherEvents : WatcherEvent(e)
    \/ TimerFires
    \/ \E outcome \in {"done", "rejected"} : SyncSettles(outcome)

SpecDev == InitDev /\ [][NextDev]_vars

\* timers fire and every sync terminates
SpecDevFair ==
    /\ SpecDev
    /\ WF_vars(TimerFires)
    /\ WF_vars(\E outcome \in {"done", "rejected"} : SyncSettles(outcome))

C28_EventEventuallySynced == unsynced ~> ~unsynced

(***************************************************************************)
(* C29: the configuration detectFramework returns has commands.dev and    *)
(* commands.build as [binary, args] pairs, whatever framework a manifest  *)
(* names, and runFrameworkDev and runFrameworkBuild do not fail on it.    *)
(***************************************************************************)
C29_CommandsDefined ==
    /\ pc = "frameworkDetected" =>
          \A command \in {"dev", "build"} : Len(frameworkConfig.commands[command]) = 2
    /\ pc # "rejected"

====
